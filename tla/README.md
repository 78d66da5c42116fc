# Verification of chamber

Chamber is a Tauri desktop app that talks to an AI agent in a *sidecar* process
over one bidirectional gRPC call per chat turn. The sidecar exists three times,
in Rust, Go and Python, behind one protocol (`proto/chamber_agent.proto`). The
agent has one tool, `lens_upsert`, which writes an HTML page into the user's
"mind"; every use of it needs an approval that travels back over the same call.
This directory holds TLA+ models of that system, the TLC configurations that
check them, and TLAPS proofs about them.

Paths below are relative to the repository root.

## 1. Inventory

### Protocol of a call (`proto/chamber_agent.proto`)
- **State** none; `Interact(stream HostMessage) returns (stream AgentEvent)`.
- **Messages** a prompt first, then approval decisions; back come `Started`,
  `TextDelta`, `ApprovalRequest`, `LensChanged`, and last `Completed` or `Error`.
- **Correct when** the sidecars and the host agree on the grammar of the two
  streams, which the proto file itself does not say.

### Host end of a call (`src-tauri/src/agent_runtime.rs`, `send_message` in `src-tauri/src/main.rs`)
- **State** `ChatStream`: the response stream and the sender of the request stream.
- **Operations** open with a prompt, receive, answer an approval request, see
  the end or a status, cancel (drop both ends).
- **Hard** a cancellation races with everything the sidecar is doing; a dropped
  call must not leave work behind; the end of the stream without a terminal
  event is an error.
- **Correct when** the loop always ends, and only a terminal event is success.

### Sidecar turn (`sidecar-rust`, `sidecar-go`, `sidecar`)
- **State** per call: the runner (model loop), the reader of host messages, the
  approval bridge (id -> waiting approval, closed or not), the queue of events.
- **Operations** emit, request an approval, receive a decision, run the tool,
  announce the lens, close.
- **Interaction** reader and runner share the bridge; runner and transport share
  the queue. Rust: two tokio tasks, a mutex, oneshots, a channel of 64 events,
  `tonic`. Go: three goroutines, a mutex that `Emit` holds while it waits for
  room in a channel of 64. Python: tasks of one event loop, futures, an
  unbounded queue, and worker threads for the writes.
- **Hard** early, late, repeated, malformed answers; answers that overtake the
  registration; tool call ids that come back; slow hosts and full queues; the
  host leaving at any point; a failure between the two files of a lens.
- **Correct when** nothing is written without an approval of its call, which pays for
  one write unless one run asks twice under one id; a `LensChanged` announces exactly one complete write; every turn ends with a terminal event
  unless it was cut off; a dropped call leaves nobody waiting.

### Host sessions and UI (`src-tauri/src/main.rs`, `src/App.tsx`)
- **State** `active_requests` (session -> cancel sender), `host` (the running
  sidecar) under a mutex; in the UI messages, lenses and the *sending* flag,
  which its handlers see as of the last rendering.
- **Operations** `send_message`, `cancel_message`, exit, the UI's event handler.
- **Hard** the host mutex is held while the sidecar starts; a cancel identifies
  a request by its session only; exit races with a start; events reach the UI
  before `active_requests` is updated; a dead sidecar is kept.
- **Correct when** one request per session, each with its own cancel; one
  sidecar at a time; every end reaches the UI, which is never left sending; the
  app can be left; no sidecar outlives it.

### Sidecar process lifecycle (`bundled_sidecar.rs`, `sidecar.rs`, the three `main`s)
- **State** the child and the handle the host has of it, the pipe to its stdin,
  the lines of output on their way back, the grace its server gives to calls.
- **Operations** spawn, `AUTH`, `READY`, connect, `SHUTDOWN`, end of stdin, kill; 30 s
  and 10 s timeouts.
- **Interaction** the app's host reads output only while it starts and while it
  shuts down; killing the Python sidecar kills `uv` or the loader in front of it.
- **Hard** timeouts that race with a late answer; a graceful stop that waits
  for active calls; a full pipe of output; the death of either side.
- **Correct when** each start ends in a usable sidecar or none at all, both start and
  stop return, and each sidecar ends with its host.

### Lens files (`lens.rs`, `lens.go`, `write_lens` in `agent.py`)
- **State** `index.html` and `view.json` per lens id in the mind.
- **Operations** validate, open and write each of the two files, announce; the
  host validates again and shows.
- **Hard** two writes that truncate first, no rename, no lock; concurrent sessions,
  turns that were cut off and go on writing, and Python's concurrent sibling calls
  on the same id; a write that fails halfway.
- **Correct when** disk and screen agree, in both files, once nobody interferes.

### Lens validation (`src-tauri/src/lens.rs`, `sidecar-rust/src/lens.rs`, `lens.go`, `agent.py`)
- Pure; four copies in three languages, with byte limits and three notions of
  white space. **Correct when** a lens a sidecar wrote is one the host renders.

### Others
The smoke driver (`src-tauri/src/bin/agent-smoke.rs`) is a client of all of these: its
sidecar handle is one of the two hosts of `SidecarProcess`, and its assertions
are promises the models are held to. Lens rendering and build scripts hold no protocol state.

Every hazard found, at its line, is in `PROJECT.json` under `hazards`.

## 2. Plan

| order | module | state | kind |
|---|---|---|---|
| 1 | `ChamberProtocol`, `InteractStream` | done | messages; one call as the host and the transport see it |
| 2 | `AgentTurn` | done | abstract contract of a turn |
| 3 | `RustSidecar`, `GoSidecar`, `PySidecar` | done | the three sidecars, each refining `AgentTurn` |
| 4 | `RustSidecar_proofs` | done | type correctness, decisions, gate, terminal event, refinement of `AgentTurn` |
| 5 | `ChatHost`, `ChatUi` | done | sessions, host mutex, cancel, exit; the chat state of the UI in front of them |
| 6 | `SidecarContract`, `SidecarProcess` | done | what a handle promises; both hosts and three mains, which refine it |
| 7 | `LensValidation` | done | the four validators, compared over strings around each limit |
| 8 | `LensFiles` | done | two-file writes of overlapping calls against what the host shows |
| 9 | `ChatHost_proofs` | done | one request per session, one sidecar, one end per request, for any number of sessions |
| 10 | `SidecarProcess_proofs`, `LensFiles_proofs` | done | the contract is kept, a clean end cuts off no call; disk settles, written is rendered |
| 11 | `InteractStream_proofs` | done | what the three sidecar proofs share: the host's steps, one more event |
| 12 | `GoSidecar_proofs`, `PySidecar_proofs` | done | gate, ends, no send on a closed channel, a closed bridge stays closed, refinement of `AgentTurn` |
| 13 | `ChatUi_proofs` | done | the UI uses the host as `ChatHost` says; no cross talk, `sending`, the error line |
| 14 | more of the sidecar proofs | planned | the safety half of *a dropped call leaves nobody waiting*: where Go and Python cannot move, they have finished or hold the one full queue |

No module that is proved about uses a RECURSIVE operator.

## 3. Modules

`ChamberProtocol` - messages and events. Text, arguments and HTML are
abstracted; a tool call is its id. A lens snapshot is represented by the
position, in the request stream, of the approval it was written under (`by`), and by
the place of its request among those of the run (`at`), because two requests of one
run may have one id and one approval.

`InteractStream` - the transport and the host. Both directions are logs that
only grow, with cursors: `msgs`/`read` (host to sidecar), `events`/`sent`/
`delivered` (sidecar to host). `link` says whether the call is still connected,
`response` how the sidecar ended it, `host` where the loop of `send_message`
stands. The module also has the two things a well-behaved host does not do: the
connection fails (`LinkFails`), and a client sends messages nobody asked for
(`RogueSends`): a second prompt, an answer without an outcome, an answer early,
twice or for another session. The sidecars contain code for each of these.

`AgentTurn` - the contract, over `msgs`, `events` and `writes` only. `Started`
comes first and only after a prompt; nothing follows a terminal event; a write
needs a request for its id that went out and an approval that names it; a
`LensChanged` announces a complete write that happened, once. Two writes share an
approval only if they answer different requests (`Places`) under an id that one run may
ask for twice (`Repeated`). Both constants are defined by the module that implements the
contract, from its `Batches`; in Rust, which asks for each call, `Repeated` is empty
whatever the batches are, so no two writes share an approval there.

`RustSidecar` - `interact` and `run_agent` (`server.rs`), `ApprovalState` and
`ApprovalBridge` (`bridge.rs`), the tool's `lens::validate`/`lens::write`.

| variable | code |
|---|---|
| `runner`, `calls`, `round` | program point of `run_agent`, its loop over the round's tool calls |
| `pending`, `slot` | the map of `ApprovalState`, and the oneshot of the call asked for |
| `grant` | the decision the running tool call was allowed by |
| `reader` | the spawned loop over the request stream |
| `receiver` | whether `events_rx` is still alive |
| `writes` | what reached the disk, whole or not |

`GoSidecar` - `Interact` and `runInteractiveAgent` (`server.go`), `bridge.go`,
and the tool in `agent.go`. `mu` is the bridge's mutex: every critical section
is one step that needs it free, except that of `Emit`, which may wait for room
in the channel with the mutex held (`EmitWaits`). The deferred `delete` and
`Close` are steps of their own, since they take the mutex again.

`seenRequests` is keyed by the request's own id and `processedToolCallIDs` is filled only
after the run, so one run may leave two requests for one tool call id. The loop over them
keeps its decisions by call id (`decisions`): the first request of an id is emitted and waited
for (`EmitRequest`, `Register`, `TakeDecision`), a later one of the same loop is answered
from the decision that is there (`AnswerAgain`), with no event and no wait. If that is an
approval, `CreateResponse` approves both requests and two writes follow from one answer of
the user. Across runs an id is not asked for again.

What a run leaves to ask about (`Unprocessed`) is written out as a sequence with the right
places of the batch, not with `SelectSeq`, about which the provers know nothing.

`PySidecar` - `server.py` and the tool and handler of `agent.py`. An action is
what a task does between two awaits that can suspend it. `handle_deferred` asks about
every call of a round, also about two with one id, but keeps the answers in a dict by id
(`decisions`): the later one holds for both calls, which run or not together (`Approved`). A
worker thread
(`ThreadWrites`) takes any time it likes and is not stopped by a cancellation.

`ChatHost` - the commands of `main.rs`. A request is one invocation of
`send_message`; its critical sections and awaits are the steps.

| variable | code |
|---|---|
| `request`, `result` | program point of each `send_message`, and what it returns |
| `active`, `armed` | `active_requests`: whose entry a session has, and whether the sender is still in it |
| `cancels` | oneshots that have been fired |
| `host`, `conn` | `AgentState.host`, and the sidecar each request starts or has a runtime of |
| `spawned`, `children` | sidecar processes so far, and those that run and whose handle the app has |
| `app` | the event loop and the exit handler |
| `chat` | `chat-event`s emitted so far |

The mutex on `host` has no variable of its own: it is held exactly while a
request is starting a sidecar or the exit handler is stopping one (`HostLocked`).

`ChatUi` - `App.tsx` in front of it. `transcript`, `sending` and `error` are React state,
`rendered` is the value of `sending` that the handlers have; `seen` and
`settled` say which events and rejections have arrived, `stop` where a
`cancel_message` is. Messages remember whose text and whose note "Stopped." was
added to them, which `NoCrossTalk` compares with whose they are. All this goes
with the webview when the event loop exits (`Unload`). Events arrive in order;
commands and their results arrive whenever they like, also with respect to
events. `hasty` is a history variable: it remembers a prompt that was sent
between a `setSending(true)` and its rendering, which two canvas actions can do.
In that case the host refuses the second prompt, the rejection clears `sending`,
and the first turn streams on without a Stop button until it ends;
`SendingIsTrue` promises that button in all other cases, and `ErrorIsCurrent` an
error line that is about the last prompt.

`SidecarContract` - what `ChatHost` assumes of a sidecar: a handle (`none`,
`starting`, `up`, `stopping`, `gone`) and a process (`off`, `running`, `ended`). A handle
is up only if the process runs; neither comes back; a start and a stop return;
a handle that is gone leaves no process behind.

`SidecarProcess` - the program that keeps it: the app's `bundled_sidecar.rs` with
`AgentHost` in `main.rs`, or the smoke test's `sidecar.rs`, against the `main` of one
of the three sidecars. Where the hosts or the mains differ, `style` and `kind` say so
in the action concerned.

| variable | code |
|---|---|
| `kind`, `style` | which sidecar, and which of the two hosts |
| `host` | program point of start, shutdown or kill; `dead` once its process has ended |
| `stdin`, `writer` | lines in the pipe to the sidecar, and whether somebody can still write |
| `out`, `stuck` | lines on their way to the host; whether the sidecar waits for room |
| `sidecar`, `status` | program point of `main`, and how the process ended |
| `grace` | how long its graceful stop waits for calls |
| `call` | one call of `Interact`, as far as stopping is concerned |

The contract is refined by mapping `host` and `sidecar` (`Contract` in the module):
`spawned`, `waiting` and `connecting` are `starting`; the five ways to be through with a
sidecar are `gone`. Python's child is not killed with the process in front of it,
so `KillChild` leaves it running, to end at the end of its stdin.

`LensValidation` - a string is a sequence of kinds of characters, as far as the
validators tell them apart: length in bytes, white space (Rust and Go use
Unicode's White_Space, Python's `strip` removes U+001C to U+001F as well), and
membership in the alphabet of ids. A page is a size and whether the two tags are in it.
A verdict is the first complaint in the order of the code.

`LensFiles` - the calls of a scenario, each with a turn and a lens, from
validation to what the host shows.

| variable | code |
|---|---|
| `pc` | program point of each `lens_upsert`: between opening a file and writing it, too |
| `turn` | whether the call of `Interact` a tool call belongs to still runs, is over, or was cut off |
| `queue` | `LensChanged` on their way to the host |
| `html`, `manifest` | the two files of each id; a block is named by the call that wrote it |
| `shown` | the call whose lens the host has last sent to the webview |

`raced` is a history variable: the ids whose last write was disturbed, by another
call at the same time, a failure, or a turn that was cut off before the announcement
had arrived. `DiskSettles` says nothing of those, and says of all others that disk and screen agree: so a
single undisturbed call repairs whatever was there.

The agent frameworks are not in the repository and are modelled from how it
uses them: the model may stream, ask for one of the `Batches` of tool calls,
finish or fail. In Go the framework runs approved tools one after the other in
the run that follows the approvals; in Python it runs them concurrently and
cancels them with the run. In Go it calls a tool once for each approved response; in Python
once for each call of the round whose id has an approval.

`MCRustSidecar`, `MCGoSidecar`, `MCPySidecar`, `MCChatHost`, `MCChatUi` and `MCLensFiles` give
the constants their values.
Each definition marked *Mutant* next to one that models code is a plausible bug
of that code; `PROJECT.json` names, for each property of a passing run, the
mutant that breaks it.

## 4. Runs

Passing runs. The three of the sidecars use two tool call ids, rounds of one or two calls, two
rounds (in Python, up to three calls), approvals and denials, a client that may add its own messages until the
stream holds two, and a host that may cancel or lose the connection anywhere.

| run | what it shows |
|---|---|
| `rust_turn` | types; the approval gate; map, oneshot and runner agree; a call that is not cut off ends after a terminal event; the turn refines `AgentTurn`; the host is always released |
| `go_turn` | types; the gate; no send on the closed channel; a clean close comes after a terminal event; refinement; the host is released; after a drop every goroutine finishes unless `Emit` is waiting with the mutex |
| `py_turn` | types; the gate; terminal event; a closed bridge stays closed and leaves nobody waiting; refinement; the host is released; after a drop both tasks and the generator finish |
| `host_sessions` | types; `active_requests` has the entries it should; never two sidecars; the webview is told of each end exactly once, through all early returns of `send_message` |
| `chat_ui` | the text of a reply never ends up under another prompt; nor does the note that it was stopped, except where a prompt did not wait for the rendering, or the prompt it is put under was itself rejected and its own events came after the rejection; `sending` is neither stale nor lost; the error line is about the last prompt; whatever ends a request, a cancel in particular, reaches the UI; the app can always be left |
| `sidecar_process` | types; a shutdown that returns Ok has cut off no call except after Python's grace; the process refines `SidecarContract`; start and stop return, also with full pipes and dead partners; no sidecar is left behind |
| `lens_files` | types; the host renders whatever a sidecar writes, for lenses at and beyond each limit; disk and screen agree after one undisturbed call, whatever races, failures and cuts came before |

Runs that show a disagreement between the code and what is said of it.

| run | what it shows |
|---|---|
| `rust_drop` | "Dropping the stream unblocks everything" (`ai-docs/approval-and-lens-flow.html`) does not hold in Rust: the clean end of the request stream does not cancel the waiting approval, and an approval asked for after `cancel_all` waits for nobody. The runner's task stays for ever |
| `rust_tool` | "Three outcomes, none of which kill the turn" (same page) does not hold in Rust: a malformed lens or a failed write ends the turn with an `Error` |
| `go_early` | in Go the request goes out before its id is in the map. A host that answers at once can see its turn end with status OK and no terminal event, which `send_message` reports as a failure |
| `go_full` | in Go a client that goes away while `Emit` waits with the mutex held leaves runner and reader blocked for ever |
| `lens_siblings` | the smoke test asserts that the HTML on disk is that of the last event. Two sibling calls of one Python turn for the same id write in two threads, and may write in one order and announce in the other: the turn completes, and the next start of the app would show another lens than this one |

### Bounds
- `Batches`: two calls of one round, two of one round with one id, and an id that comes
  back in a later round are the cases in which an answer could reach the wrong call or be
  used twice. Rust: `<<c1>>` and `<<c1, c2>>` (it asks one call at a time, so a batch that
  repeats an id is a second round with it); Go: `<<c1, c2>>` and `<<c2, c2>>` (in a second run
  what the first asked for is passed over, which leaves a batch of one); Python: `<<c1>>`, `<<c1, c2>>` and
  `<<c2, c2>>`. `MaxRounds` = 2, in Python `MaxCalls` = 3: every two batches of which one has
  one call. A third call or round meets the same map.
- `Capacity` = 1 (64 in the code): the queue fills up after one event, so every
  emit is checked with room and without.
- `MaxEvents` = 2: text is streamed only while fewer events were queued. Text
  changes nothing but the fill of the queue, which other events change too.
- `MaxMessages` = 2: a rogue message follows the prompt, or comes before it. The
  host's own answers are not bounded by it, so a stream holds up to six messages.
  One rogue is enough for each error path of the readers: the Go and Python
  readers stop at the first, and the Rust reader has no state besides the map.
- The violation runs use a well-behaved host (`MCNoRogues`) and one round: their
  counterexamples are behaviours of the real host.
- `host_sessions` has three requests in two sessions: two of one session compete
  for its entry while a third competes for the host. `chat_ui` has two prompts of
  the one session the UI uses: what a first prompt can do to a later one shows
  with two. In both, `MaxText` = 1 text delta per request, and at most one Stop is on
  its way. Sidecars are spawned as often as requests find none.
- `sidecar_process` has one start and one stop, since a handle is not used again
  (`ChatHost` has several), and one call, since stopping asks only whether any is left.
  `Room` = 2 lines of output: the pipe is empty, partly filled and full, also in front of `READY`.
- `lens_files` scales the limits to 2 bytes for id, name and icon and 3 for a page
  (64, 80, 32 and 512 Ki in the code), and takes every string of up to three
  characters of the seven kinds for each part: each limit is met, missed by one and
  crossed in the middle of a two-byte character. What overlaps is three calls in two
  turns, with one id or two, of different sizes, so that a write over a longer file
  would leave its tail: two of one turn race in Python, one of another turn with either.

Deadlock is not checked: a call ends, and then nothing happens any more. That
nobody waits for ever is what the liveness properties say.

### Fairness
Weak fairness of the sidecar's tasks (each is scheduled by tokio, the Go runtime
or asyncio whenever it can run), of the transport, and of the host's loop. For
the runner it includes that the model provider answers and that writes
return; the code sets no timeout on either. There is no fairness on cancelling,
on losing the connection or on rogue messages. `HostIsReleased` covers a host
that is receiving.

`ChatUi` assumes weak fairness of the tasks of the commands, of starting and stopping a
sidecar (both have a timeout in `bundled_sidecar.rs`; connecting and killing are
taken to return), and of the webview handling what has arrived. Waiting for the
mutex on `host` gets strong fairness, because tokio's mutex serves its waiters
in order. A sidecar owes a call nothing: there is no fairness on a call opening,
failing, relaying or ending. `EndReachesUi` therefore says of a request that is
cancelled, and no more, that the UI sees its end even if the sidecar is silent.

`SidecarProcess` assumes weak fairness of the host's steps and strong fairness of the
sidecar's, which log lines may interrupt. Of the timeouts only those are used that
are needed: the one of shutdown while a call is open, and a start ends by
itself where the process is gone; a start that waits for a sidecar that runs is ended by the
sidecar's own progress. A host whose shutdown has returned ends (`main` returns, and so does
the smoke test). Nobody has to open a call, to end one, to crash or to log.

The host's fairness assumes that `send_message` runs on an unblocked runtime:
it answers a request before it reads on, and the answer can wait only for the
request stream's own channel, which the transport drains.

## 5. Proofs

`RustSidecar_proofs` proves, for any set of call ids, any batches, any outcomes
and rogue messages, any capacity and any bounds:

| theorem | statement |
|---|---|
| `TypeCorrect` | `Spec => []TypeOK` |
| `DecisionsAlwaysMatch` | `Spec => []DecisionsMatch` |
| `GateAlwaysHolds` | `Spec => []GateHolds` |
| `AlwaysEndsWithTerminal` | `Spec => []EndsWithTerminal` |
| `ImplementsAgentTurn` | `Spec => TurnHolds`, that is, `AgentTurn`'s `Spec` over the streams and the writes |

The first three are parts of one inductive invariant,
`IInv == TypeOK /\ Positions /\ DecisionsMatch /\ GateHolds` (`Invariance`).
`GateHolds` alone is not inductive: that a write made now uses an approval of
its own rests on what the runner holds. `Positions` says it: the decision in
the oneshot and the one the tool runs under are positions that have been read,
later than those of all writes so far, and the one the tool runs under
approves the call being handled. `DecisionsMatch` adds that the oneshot's
decision names the call waited for, although the reader filled it knowing only
the map; it is what carries an approval from the request stream to the right
call when ids are reused. Lemmas: `TypeStep`, `PositionsStep`, `DecisionsStep`
and `GateStep` take one conjunct through a step each; `LogGrows`,
`HostAppends`, `WritesOnlyInRunTool` and `NextCallLeft` state what every step
leaves alone.

`EndsWithTerminal` needs `Ending` on top of it. `run_agent` leaves without a
terminal event where `emit` fails or the oneshot is dropped; `Ending` says that
either happens only once the client is gone, and that a runner that is done has
otherwise queued a terminal event last. `EndingStep` takes it through a step.

The refinement needs `TurnInv`, which tells from where `run_agent` stands how far the
response stream is. `Heard`: the first message is the prompt once the call is accepted.
`Spoken`: the turn has begun and is not over while the runner is at work, a call waits and
its tool runs only after its request was queued, and every snapshot announced so far was
written under an approval, which is earlier than the one the running tool holds
(`Positions`); hence the next write is not announced yet. `HeardStep` and `SpokenStep`
take them through a step, `Queued` says what one more event changes, and `TurnStep` maps
each action: an emit to the event it queues, a write to `WriteLens`, what the host sends
to `Hear`, and everything else to a stutter.

`GoSidecar_proofs` proves, for any calls, batches, host, capacity and bounds:

| theorem | statement |
|---|---|
| `TypeCorrect` | `Spec => []TypeOK` |
| `GateAlwaysHolds` | `Spec => []GateHolds` |
| `NeverSendsAfterClose` | `Spec => NoSendAfterClose` |
| `CleanEndIsAlwaysTerminal` | `Spec => []CleanEndIsTerminal` |
| `ImplementsAgentTurn` | `Spec => TurnHolds` |

The invariant is
`IInv == TypeOK /\ AnswersAnEvent /\ WaitInv /\ LoopInv /\ GrantInv /\ WriteInv /\ GateHolds`.
In Go a decision goes a long way before it is used: the reader puts it in a channel, the
runner keeps it under its id, makes one response from it or more, and the next run's tools use
those one after the other. `WaitInv`: map, channel and runner agree on the call, although
the reader knows only the map. `LoopInv`: requests share an id only if batches may, each
decision kept is from a message that names its id, and nobody is asked about an id that has one.
`GrantInv`: the approved responses are of requests whose decision approves them, each
once and in their order. `WriteInv` relates all that to the past: a write was made under a decision
earlier than the one in the channel; if that is a decision of the last loop, the loop has ended,
and the write is of a request before all those still to run, but for the one just written
that is being announced. So a write made now shares its decision only with
one for an earlier request with the same id, which is what `GateHolds` allows.

`CloseInv` is what the two theorems about closing rest on: `Emit` holds the mutex only
while the bridge is open, so `Close` cannot come in between; the runner itself closes it
in good order, last; and it gets there without a terminal event only by finding the client
gone or the bridge closed, by its context, its channel or `Emit`, each of which tells the truth.

`PySidecar_proofs` proves, for any calls, batches, host and bounds:

| theorem | statement |
|---|---|
| `TypeCorrect` | `Spec => []TypeOK` |
| `GateAlwaysHolds` | `Spec => []GateHolds` |
| `ClosedIsAlwaysFinal` | `Spec => ClosedIsFinal` |
| `AlwaysEndsWithTerminal` | `Spec => []EndsWithTerminal` |
| `ImplementsAgentTurn` | `Spec => TurnHolds` |

The invariant has the same parts, with `RoundInv` in the place of `LoopInv`. Here approved calls are at
work at the same time, and their threads come back in any order and outlive the runner: `GrantInv`
says that each call on its way to the disk is in one place and its id has an approval, and
`WriteInv` that a write under a decision of the round at hand is of a call that will not write again.
`WaitInv`: the map holds the one call the runner awaits, its
future was resolved by a message that names that call, and a closed bridge leaves none
unresolved; `ClosedIsFinal` follows from it. `EndInv`: the response ends only after the runner has,
which has queued a terminal event last unless the call was cut off.

Both refinements need a `TurnInv` like Rust's: `Heard`, and `Spoken`, which tells from where the runner stands
how far the response stream is, that every id with a decision was asked about (`DecidedAsked`),
that a write about to be announced is not announced yet (`WrittenUntold` in Python), and that
each announcement so far has its write (`LensTold`).

`InteractStream_proofs` has the lemmas the three share: what the host's steps leave alone
(`HostAppends`, `HostMoves`), what one more event changes (`OneMoreEvent`, `MoreSaid`), and the ends of a queue.

`ChatHost_proofs` proves, for any requests and sessions:

| theorem | statement |
|---|---|
| `TypeCorrect` | `Spec => []TypeOK` |
| `EntriesAlwaysMatch` | `Spec => []EntriesMatch` |
| `NeverTwoSidecars` | `Spec => []OneSidecar` |
| `EndsAlwaysOnce` | `Spec => []EndsOnce` |

The invariant is `TypeOK /\ EntriesMatch /\ CancelledLate /\ MutexHolds`.
`EntriesMatch` needs `CancelledLate` (a request that claims a session has not been
cancelled, so the sender it puts in is a fresh one). `OneSidecar` needs `MutexHolds`:
one request at most is starting, only while there is no host and none is being
stopped, and every sidecar is the host or the one being started. One lemma
takes each part through a step (`TypeStep`, `EntriesStep`, `MutexStep`).
`EndsOnce` needs `EndsInv` on top of it: an end event of a request is there exactly if its
command returns Ok, and it is the request's last. Two sessions share no log and two
requests of one session no event (`EmitElsewhere`, `EmitHere`).
`LogInv`, which the UI's proofs need, says how the requests of a session share its log:
they come in order, say nothing before their call is open, and one that has begun to
speak and not ended has spoken last, so that a text delta always follows an event of its own request.
Assumption: `HostAssumption`, the types of the constants; TLC evaluates it in
`host_sessions`.

`ChatUi_proofs` proves, for any requests and sessions:

| theorem | statement |
|---|---|
| `HostIsKept` | `UiSpec => Spec`: the UI uses the host as `ChatHost` says, so all of the above holds with it |
| `NeverCrossTalk` | `UiSpec => []NoCrossTalk` |
| `SendingIsAlwaysTrue` | `UiSpec => []SendingIsTrue` |
| `ErrorIsAlwaysCurrent` | `UiSpec => []ErrorIsCurrent` |

The three are parts of one inductive invariant, `UiInv`, on top of the host's `HostInv`. Two parts of it are
not among the properties. `ReplyLast`: a reply that has begun and not ended is the last
message unless a prompt came after it; with `LogInv`, the next text delta is of that reply.
`OneOpen`: as long as every prompt waited for the rendering, only the latest request can be open,
and nothing was written since its prompt but by it and by rejected ones. `SendingIsTrue` and `OneOpen`
need each other: a prompt can be sent only while nothing is open, because `sending` is
true whenever something is; and an end may clear `sending` because it is the end of the only open request. That the
end handled, or the promise rejected, is of an open request at all (`NextIsOpen`, `SettlingIsOpen`) rests on
`EndsOnce`: an end arrives by the event or by the rejection, never both. The host's own
steps are `HostIsQuiet`: what it has told it has told for good. `OpenStays` and
`OpenUntilEnd` say which requests a step leaves open. Assumption: `UiAssumption`, that
every prompt has the UI's session and that an error of a Stop is told from a request's; TLC
evaluates it in `chat_ui`.

`SidecarProcess_proofs` proves, for any room in the pipe:

| theorem | statement |
|---|---|
| `TypeCorrect` | `Spec => []TypeOK` |
| `CleanAlwaysMeansDrained` | `Spec => []CleanMeansDrained` |
| `ContractIsKept` | `Spec => ContractHolds`, that is, `SidecarContract`'s `Spec` under the mapping |

`TInv` strengthens the types by two facts: before READY the lines of output fit
into the pipe (`EarlyIsPast` says `main` does not go back there, so READY is the only
line that can exceed it), and nothing runs before it is spawned.
`CleanMeansDrained` needs `CutsHaveReasons`: a call is cut off only by a host that
is dead, by a process that ended badly, or after its grace. For the refinement,
`HostKeepsContract` and `SidecarKeepsContract` map each action: most are stutters, and
everything that ends a start or a stop is the contract's `LetGo`, with or without
the end of the process (`LetGoStep`). Assumption: `ProcessAssumption` (there is room for a line).

`LensFiles_proofs` proves, for any scenarios, limits and sidecars:

| theorem | statement |
|---|---|
| `TypeCorrect` | `Spec => []TypeOK` |
| `WrittenIsAlwaysRendered` | `Spec => []WrittenIsRendered` |
| `DiskAlwaysSettles` | `Spec => []DiskSettles` |

The invariant is `IInv == Types /\ QueueInv /\ Accepted /\ DiskInv`. `QueueInv`: a queue
has each call once, and only calls being announced. `Accepted`: what has got as far as a file was
valid for the sidecar, hence for the host (`SidecarIsStricter`: Python's white space includes
the others'). `DiskInv` is what `DiskSettles` needs while a call is at
work: of an id that is not raced at most one call is busy, and the
files are, for each of its program points, as far as it has got. Assumptions: `ValidationAssumption` and
`FilesAssumption`: limits are positive, calls have their types, and no page of a call is empty
(an empty page has no tags). TLC evaluates them in `lens_files`.

Assumptions of the three sidecars: `NoCallAssumption`, `StreamAssumption`, and `RustAssumption`,
`GoAssumption` or `PyAssumption`, which say only that the constants have their types,
that a capacity is positive and that a batch is not empty. A batch may repeat ids. TLC evaluates them in
`rust_turn`, `go_turn` and `py_turn`.

Each inductive invariant was model-checked on the instance of its run before it was proved.
Every invariant, action property and refinement that a passing run checks is now a
theorem. Only model-checked: liveness (`HostIsReleased`, `DropUnblocks`,
`DropUnblocksUnlessFull`, `EndReachesUi`, `ExitCompletes`, `StartAndStopReturn`, `NothingIsLeft`),
which needs ENABLED and is out of the prover's reach.

## 6. Not modelled

- A host that starts again after its sidecar has died: `main.rs` has no code for it.
  `AgentState.host` stays `Some` and later requests fail; `PROJECT.json` names this
  hazard, which no property covers, because nothing in the repository promises otherwise.
- The model provider and the agent frameworks, beyond the choices above.
- The contents of a lens in the modules of the turns: validation may succeed or
  fail there; `LensFiles` has the contents and leaves approvals out.
- The script of the smoke test, which needs a live model; lines that break the
  handshake other than by failing it.
- The session id of an event, which each sidecar copies from the prompt, and
  which `send_message` passes on without comparing it.
- HTTP/2 flow control, and the host's channel of outgoing messages: the host
  has at most one answer outstanding per request.
- In `ChatHost` an `app.emit` that fails, and blank prompts. What becomes of a
  sidecar whose handle is dropped (a failed start, or a start that the exit
  overtakes) is in `SidecarProcess`.
- In `ChatUi` the lens view: the lens on the screen only becomes part of the text of the next prompt.
  The command's `Err` for a second cancel and for one without a request are one (`stop` = "refused").
- Text, HTML rendering, build scripts, packaging, generated stubs.
