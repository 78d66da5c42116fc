------------------------------ MODULE ChatHost ------------------------------
(***************************************************************************)
(* The Tauri commands of src-tauri/src/main.rs: send_message and           *)
(* cancel_message, the exit handler, and the state they share (AgentState: *)
(* active_requests and host).                                              *)
(*                                                                         *)
(* A request is one invocation of send_message. What happens on its call   *)
(* to the sidecar is the subject of InteractStream and AgentTurn; here the *)
(* call opens or fails, relays events and ends. Approvals and lenses are   *)
(* handled inside the loop and leave this state alone.                     *)
(***************************************************************************)
EXTENDS Integers, Sequences, FiniteSets

CONSTANTS
  Requests,  \* the invocations of send_message, numbered as they come
  Sessions,  \* the session ids they name
  SessionOf, \* the session of each request
  NoRequest, \* a session without an entry in active_requests
  MaxText    \* bound on the text deltas relayed for one request

ASSUME HostAssumption ==
  /\ Requests \subseteq Nat
  /\ SessionOf \in [Requests -> Sessions]
  /\ NoRequest \notin Requests
  /\ MaxText \in Nat

VARIABLES
  request,  \* where each invocation of send_message stands
  result,   \* what it returns: "none" until it is known, "ok" or "error"
  active,   \* active_requests: the request that put the session's entry there
  armed,    \* the requests whose cancel sender is still in that entry
  cancels,  \* the requests whose  cancelled  oneshot has been fired
  host,     \* the sidecar in AgentState.host, or NoSidecar
  conn,     \* the sidecar each request starts or talks to
  spawned,  \* sidecars spawned so far; they are numbered from 1
  children, \* the sidecars that run, and whose handle the app has
  app,      \* the event loop, and how far the exit handler is
  chat      \* the chat-events emitted to the webview for each session

commandVars == <<request, result, active, armed, cancels>>
sidecarVars == <<host, conn, spawned, children>>
hostVars == <<commandVars, sidecarVars, app, chat>>

NoSidecar == 0

\* The states of a request that has an entry in active_requests.
Live == {"claimed", "starting", "opening", "streaming", "leaving"}
\* "ended": Completed or Error, which differ in what is displayed only.
Ends == {"ended", "cancelled"}
ChatEvent == [kind : {"started", "text"} \cup Ends, by : Requests]

TypeOK ==
  /\ request \in [Requests -> {"new", "invoked", "done"} \cup Live]
  /\ result \in [Requests -> {"none", "ok", "error"}]
  /\ active \in [Sessions -> Requests \cup {NoRequest}]
  /\ armed \subseteq Requests /\ cancels \subseteq Requests
  /\ host \in Nat /\ conn \in [Requests -> Nat] /\ spawned \in Nat
  /\ children \subseteq 1..spawned
  /\ app \in {"running", "exiting", "stopping", "stopped", "gone"}
  /\ chat \in [Sessions -> Seq(ChatEvent)]

Init ==
  /\ request = [r \in Requests |-> "new"]
  /\ result = [r \in Requests |-> "none"]
  /\ active = [s \in Sessions |-> NoRequest]
  /\ armed = {} /\ cancels = {}
  /\ host = NoSidecar /\ conn = [r \in Requests |-> NoSidecar]
  /\ spawned = 0 /\ children = {}
  /\ app = "running" /\ chat = [s \in Sessions |-> <<>>]

-----------------------------------------------------------------------------
(* send_message up to its call. *)

Go(r, state) == request' = [request EXCEPT ![r] = state]
Leave(r, how) == Go(r, "leaving") /\ result' = [result EXCEPT ![r] = how]

\* The process still runs, so its tasks do.
Alive == app # "gone"

(* The webview invokes the command. *)
Invoke(r) ==
  /\ app = "running" /\ request[r] = "new"
  /\ \A q \in Requests : q < r => request[q] # "new"
  /\ Go(r, "invoked")
  /\ UNCHANGED <<result, active, armed, cancels, sidecarVars, app, chat>>

\* Mutant of Claim: no look at the entry that is there.
ClaimUnchecked(r) ==
  /\ Alive /\ request[r] = "invoked"
  /\ active' = [active EXCEPT ![SessionOf[r]] = r] /\ armed' = armed \cup {r}
  /\ Go(r, "claimed") /\ UNCHANGED result
  /\ UNCHANGED <<cancels, sidecarVars, app, chat>>

(* The first critical section: a session has one request at a time. *)
Claim(r) ==
  /\ Alive /\ request[r] = "invoked"
  /\ IF active[SessionOf[r]] # NoRequest
       THEN /\ Go(r, "done") /\ result' = [result EXCEPT ![r] = "error"]
            /\ UNCHANGED <<active, armed>>
       ELSE /\ active' = [active EXCEPT ![SessionOf[r]] = r]
            /\ armed' = armed \cup {r}
            /\ Go(r, "claimed") /\ UNCHANGED result
  /\ UNCHANGED <<cancels, sidecarVars, app, chat>>

\* Mutant of HostLocked: the mutex is released for the time of the start.
HostLockedBriefly == app = "stopping"

\* Mutant of HostLocked: the guard is kept until the call is open.
HostLockedTooLong ==
  app = "stopping" \/ \E r \in Requests : request[r] \in {"starting", "opening"}

(* The mutex on AgentState.host is held while a sidecar starts and, by the   *)
(* exit handler's  if let , while it shuts down.                             *)
HostLocked == app = "stopping" \/ \E r \in Requests : request[r] = "starting"

(* The sidecar that runs is shared: the request takes a clone of its runtime. *)
TakeHost(r) ==
  /\ Alive /\ request[r] = "claimed" /\ ~HostLocked /\ host # NoSidecar
  /\ Go(r, "opening") /\ conn' = [conn EXCEPT ![r] = host]
  /\ UNCHANGED <<result, active, armed, cancels, host, spawned, children, app, chat>>

(* There is none: AgentHost::start spawns one, or fails at once. *)
SpawnSidecar(r) ==
  /\ Alive /\ request[r] = "claimed" /\ ~HostLocked /\ host = NoSidecar
  /\ \/ /\ Go(r, "starting") /\ UNCHANGED result
        /\ spawned' = spawned + 1 /\ children' = children \cup {spawned + 1}
        /\ conn' = [conn EXCEPT ![r] = spawned + 1]
     \/ Leave(r, "error") /\ UNCHANGED <<conn, spawned, children>>
  /\ UNCHANGED <<active, armed, cancels, host, app, chat>>

(* It said READY, and the runtime is connected. *)
StartOk(r) ==
  /\ Alive /\ request[r] = "starting" /\ conn[r] \in children
  /\ host' = conn[r] /\ Go(r, "opening")
  /\ UNCHANGED <<result, active, armed, cancels, conn, spawned, children, app, chat>>

(* It died, said something else, or did not do so in 30 seconds; its handle  *)
(* is dropped, and with it the writing end of its stdin: what becomes of it  *)
(* is between the sidecar and its stdin.                                     *)
StartFails(r) ==
  /\ Alive /\ request[r] = "starting" /\ Leave(r, "error")
  /\ children' = children \ {conn[r]}
  /\ UNCHANGED <<active, armed, cancels, host, conn, spawned, app, chat>>

-----------------------------------------------------------------------------
(* The call. *)

Chat(r) == chat[SessionOf[r]]
EventsOf(r) == {i \in DOMAIN Chat(r) : Chat(r)[i].by = r}

Emit(r, kind) ==
  chat' = [chat EXCEPT ![SessionOf[r]] = Append(@, [kind |-> kind, by |-> r])]

CallOpens(r) ==
  /\ Alive /\ request[r] = "opening" /\ conn[r] \in children
  /\ Go(r, "streaming")
  /\ UNCHANGED <<result, active, armed, cancels, sidecarVars, app, chat>>

(* interactive_chat or message() returns an error, or the stream ends before *)
(* a terminal event: the sidecar refused the call, failed or died.           *)
CallFails(r) ==
  /\ Alive /\ request[r] \in {"opening", "streaming"} /\ Leave(r, "error")
  /\ UNCHANGED <<active, armed, cancels, sidecarVars, app, chat>>

(* What AgentTurn lets a sidecar send: Started first, then text. *)
RelayEvent(r) ==
  /\ Alive /\ request[r] = "streaming" /\ conn[r] \in children
  /\ Cardinality(EventsOf(r)) <= MaxText
  /\ Emit(r, IF EventsOf(r) = {} THEN "started" ELSE "text")
  /\ UNCHANGED <<commandVars, sidecarVars, app>>

(* Completed or Error: the loop returns after it has been emitted. *)
RelayTerminal(r) ==
  /\ Alive /\ request[r] = "streaming" /\ conn[r] \in children /\ EventsOf(r) # {}
  /\ Emit(r, "ended") /\ Leave(r, "ok")
  /\ UNCHANGED <<active, armed, cancels, sidecarVars, app>>

\* Mutant of CallCancelled: interactive_chat is awaited without a select.
CallCancelledOnceOpen(r) ==
  /\ Alive /\ request[r] = "streaming" /\ r \in cancels
  /\ Emit(r, "cancelled") /\ Leave(r, "ok")
  /\ UNCHANGED <<active, armed, cancels, sidecarVars, app>>

\* Mutant of CallCancelled: the early arm returns without telling the webview.
CallCancelledSilently(r) ==
  /\ Alive /\ request[r] \in {"opening", "streaming"} /\ r \in cancels
  /\ IF request[r] = "opening" THEN UNCHANGED chat ELSE Emit(r, "cancelled")
  /\ Leave(r, "ok")
  /\ UNCHANGED <<active, armed, cancels, sidecarVars, app>>

\* Mutant of CallCancelled: the command returns the cancel as an error, too.
CallCancelledTwice(r) ==
  /\ Alive /\ request[r] \in {"opening", "streaming"} /\ r \in cancels
  /\ Emit(r, "cancelled") /\ Leave(r, "error")
  /\ UNCHANGED <<active, armed, cancels, sidecarVars, app>>

(* The  cancelled  arms of the two select!s. *)
CallCancelled(r) ==
  /\ Alive /\ request[r] \in {"opening", "streaming"} /\ r \in cancels
  /\ Emit(r, "cancelled") /\ Leave(r, "ok")
  /\ UNCHANGED <<active, armed, cancels, sidecarVars, app>>

(* The last critical section, and the return: the session's entry goes. *)
Return(r) ==
  /\ Alive /\ request[r] = "leaving" /\ Go(r, "done")
  /\ active' = [active EXCEPT ![SessionOf[r]] = NoRequest]
  /\ armed' = armed \ {active[SessionOf[r]]}
  /\ UNCHANGED <<result, cancels, sidecarVars, app, chat>>

\* Mutant of CancelMessage: a session without an entry is not refused.
CancelUnchecked(s) ==
  /\ app = "running"
  /\ armed' = armed \ {active[s]} /\ cancels' = cancels \cup {active[s]}
  /\ UNCHANGED <<request, result, active, sidecarVars, app, chat>>

(* cancel_message takes the sender out of the session's entry and fires it.  *)
(* The receiver is there as long as the entry is. Without an entry, or with  *)
(* its sender gone, the command changes nothing.                             *)
CancelMessage(s) ==
  /\ app = "running" /\ active[s] \in armed
  /\ armed' = armed \ {active[s]} /\ cancels' = cancels \cup {active[s]}
  /\ UNCHANGED <<request, result, active, sidecarVars, app, chat>>

-----------------------------------------------------------------------------
(* The end of the application, and of the sidecars. *)

Exit ==
  /\ app = "running" /\ app' = "exiting"
  /\ UNCHANGED <<commandVars, sidecarVars, chat>>

(* The exit handler gets the mutex, which it keeps if there is a host in it. *)
ExitTakesHost ==
  /\ app = "exiting" /\ ~HostLocked
  /\ app' = IF host = NoSidecar THEN "stopped" ELSE "stopping"
  /\ UNCHANGED <<commandVars, sidecarVars, chat>>

(* shutdown returns: SHUTDOWN could not be written, the sidecar ended, or    *)
(* ten seconds have passed and it is killed. The host has been taken, its    *)
(* handle is gone, and the mutex is free.                                    *)
ExitShutsDown ==
  /\ app = "stopping" /\ app' = "stopped"
  /\ host' = NoSidecar /\ children' = children \ {host}
  /\ UNCHANGED <<commandVars, conn, spawned, chat>>

(* The handler has returned and the process ends. *)
ExitEnds ==
  /\ app = "stopped" /\ app' = "gone"
  /\ UNCHANGED <<commandVars, sidecarVars, chat>>

(* A sidecar process ends: told to, at the end of its stdin, or by itself. *)
SidecarEnds(n) ==
  /\ n \in children /\ children' = children \ {n}
  /\ UNCHANGED <<commandVars, host, conn, spawned, app, chat>>

ExitNext == Exit \/ ExitTakesHost \/ ExitShutsDown \/ ExitEnds

CommandNext(r) ==
  \/ Claim(r) \/ TakeHost(r) \/ SpawnSidecar(r) \/ StartOk(r) \/ StartFails(r)
  \/ CallOpens(r) \/ CallFails(r) \/ RelayEvent(r) \/ RelayTerminal(r)
  \/ CallCancelled(r) \/ Return(r)

Next ==
  \/ \E r \in Requests : Invoke(r) \/ CommandNext(r)
  \/ \E s \in Sessions : CancelMessage(s)
  \/ ExitNext \/ \E n \in children : SidecarEnds(n)

Spec == Init /\ [][Next]_hostVars

-----------------------------------------------------------------------------
(* Properties. *)

(* active_requests is right: a session's entry is there exactly as long as a *)
(* request of it is under way, it is that request's own, and the sender in   *)
(* it has not been fired. So a session never has two requests, none removes  *)
(* another's entry, and each can be cancelled once.                          *)
EntriesMatch ==
  /\ \A r \in Requests : request[r] \in Live <=> active[SessionOf[r]] = r
  /\ \A s \in Sessions : active[s] # NoRequest => SessionOf[active[s]] = s
  /\ armed \cap cancels = {}
  /\ \A r \in armed : request[r] \in Live

(* However many requests come in while no sidecar runs, the app never has    *)
(* two: the mutex covers the look at host and the whole start.               *)
OneSidecar == \A m, n \in children : m = n

(* The webview is told of the end of a request exactly once: by a last       *)
(* chat-event if the command returns Ok, by its error otherwise.             *)
EndsOnce ==
  /\ \A r \in Requests : request[r] \in {"leaving", "done"} =>
       (result[r] = "ok" <=> \E i \in EventsOf(r) : Chat(r)[i].kind \in Ends)
  /\ \A r \in Requests : \A i, j \in EventsOf(r) : i < j => Chat(r)[i].kind \notin Ends
=============================================================================
