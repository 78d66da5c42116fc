------------------------------- MODULE ChatUi -------------------------------
(***************************************************************************)
(* The chat of src/App.tsx in front of ChatHost. The webview and the host  *)
(* exchange commands, their results and chat-events, each on its way for   *)
(* some time: chat-events arrive in order, but neither the results nor the *)
(* commands are ordered with them.                                         *)
(*                                                                         *)
(* React state and what the handlers see of it are two things: a handler   *)
(* has the value of  sending  of the last rendering. The webview is gone   *)
(* once the event loop exits.                                              *)
(***************************************************************************)
EXTENDS ChatHost

CONSTANT Demo \* the session of every prompt of this UI

\* The error line tells a session from a request and from nothing.
ASSUME UiAssumption ==
  /\ Demo \in Sessions /\ \A r \in Requests : SessionOf[r] = Demo
  /\ Demo \notin Requests \cup {NoRequest}

VARIABLES
  transcript, \* messages: their role, request, and whose text and notes they have
  sending,    \* the React state
  rendered,   \* its value in the rendering on the screen
  error,      \* whose error is shown: a request's, Demo for a Stop's, or NoRequest
  seen,       \* how many chat-events have been handled
  settled,    \* the requests whose promise has been rejected
  stop,       \* a cancel_message (at most one: a bound): "none", "sent" or "refused"
  hasty       \* whether a prompt was sent between setSending and its rendering

uiVars == <<transcript, sending, rendered, error, seen, settled, stop, hasty>>
vars == <<hostVars, uiVars>>

UiInit ==
  /\ Init
  /\ transcript = <<>> /\ sending = FALSE /\ rendered = FALSE /\ error = NoRequest
  /\ seen = 0 /\ settled = {} /\ stop = "none" /\ hasty = FALSE

Message(role, r) == [role |-> role, of |-> r, text |-> {}, note |-> {}]

(* sendPrompt: a form or a canvas action, with the  sending  it closes over. *)
SendPrompt(r) ==
  /\ ~rendered /\ Invoke(r)
  /\ transcript' = Append(transcript, Message("user", r))
  /\ sending' = TRUE /\ hasty' = (hasty \/ sending) /\ error' = NoRequest
  /\ UNCHANGED <<rendered, seen, settled, stop>>

(* React renders the state, and hands the new closures to the handlers. *)
Render ==
  /\ app = "running" /\ rendered # sending /\ rendered' = sending
  /\ UNCHANGED <<hostVars, transcript, sending, error, seen, settled, stop, hasty>>

(* A text delta goes to the last message, and so does the note "Stopped.".   *)
AddToLast(part, r) ==
  transcript' = [i \in DOMAIN transcript |->
    IF i = Len(transcript)
      THEN [transcript[i] EXCEPT ![part] = @ \cup {r}] ELSE transcript[i]]

\* Mutant of HandleEvent: the cancelled case leaves sending alone.
HandleEventOnly ==
  /\ app = "running" /\ seen < Len(chat[Demo]) /\ seen' = seen + 1
  /\ LET e == chat[Demo][seen + 1] IN
       \/ /\ e.kind = "started" /\ UNCHANGED <<sending, error>>
          /\ transcript' = Append(transcript, Message("assistant", e.by))
       \/ e.kind = "text" /\ AddToLast("text", e.by) /\ UNCHANGED <<sending, error>>
       \/ e.kind = "cancelled" /\ AddToLast("note", e.by) /\ UNCHANGED <<sending, error>>
       \/ /\ e.kind = "ended" /\ sending' = FALSE /\ error' \in {error, e.by}
          /\ UNCHANGED transcript
  /\ UNCHANGED <<hostVars, rendered, settled, stop, hasty>>

(* The listener of chat-event. A request that has ended has completed or     *)
(* failed, which is shown.                                                   *)
HandleEvent ==
  /\ app = "running" /\ seen < Len(chat[Demo]) /\ seen' = seen + 1
  /\ LET e == chat[Demo][seen + 1] IN
       \/ /\ e.kind = "started" /\ UNCHANGED <<sending, error>>
          /\ transcript' = Append(transcript, Message("assistant", e.by))
       \/ e.kind = "text" /\ AddToLast("text", e.by) /\ UNCHANGED <<sending, error>>
       \/ /\ e.kind = "cancelled" /\ AddToLast("note", e.by) /\ sending' = FALSE
          /\ UNCHANGED error
       \/ /\ e.kind = "ended" /\ sending' = FALSE /\ error' \in {error, e.by}
          /\ UNCHANGED transcript
  /\ UNCHANGED <<hostVars, rendered, settled, stop, hasty>>

(* The promise of invoke is rejected; the catch clause shows the error and   *)
(* ends the sending. A promise that is fulfilled changes nothing.            *)
Settle(r) ==
  /\ app = "running" /\ request[r] = "done" /\ result[r] = "error"
  /\ r \notin settled /\ settled' = settled \cup {r}
  /\ error' = r /\ sending' = FALSE
  /\ UNCHANGED <<hostVars, transcript, rendered, seen, stop, hasty>>

(* The Stop button, which is there while the rendering says so ... *)
PressStop ==
  /\ app = "running" /\ rendered /\ stop = "none" /\ stop' = "sent"
  /\ UNCHANGED <<hostVars, transcript, sending, rendered, error, seen, settled, hasty>>

(* ... its command, which may find no request to cancel ... *)
StopArrives ==
  /\ app = "running" /\ stop = "sent"
  /\ \/ CancelMessage(Demo) /\ stop' = "none"
     \/ active[Demo] \notin armed /\ UNCHANGED hostVars /\ stop' = "refused"
  /\ UNCHANGED <<transcript, sending, rendered, error, seen, settled, hasty>>

(* ... which is then shown as an error. *)
StopRefused ==
  /\ app = "running" /\ stop = "refused" /\ stop' = "none" /\ error' = Demo
  /\ UNCHANGED <<hostVars, transcript, sending, rendered, seen, settled, hasty>>

HostMoves ==
  /\ \/ \E r \in Requests : CommandNext(r)
     \/ ExitTakesHost \/ ExitShutsDown \/ ExitEnds
     \/ \E n \in children : SidecarEnds(n)
  /\ UNCHANGED uiVars

(* The event loop exits, and the webview goes with all it knows. *)
Unload ==
  /\ Exit
  /\ transcript' = <<>> /\ sending' = FALSE /\ rendered' = FALSE /\ error' = NoRequest
  /\ seen' = 0 /\ settled' = {} /\ stop' = "none" /\ hasty' = FALSE

UiNext ==
  \/ HostMoves \/ Unload \/ Render \/ HandleEvent \/ PressStop \/ StopArrives \/ StopRefused
  \/ \E r \in Requests : SendPrompt(r) \/ Settle(r)

UiSpec == UiInit /\ [][UiNext]_vars

(* Tasks are scheduled, tokio's mutex serves its waiters in order (so a wait *)
(* for it is fair even if it is not always free), and starting and stopping  *)
(* a sidecar have timeouts. A sidecar owes a call nothing: neither that it   *)
(* opens nor that it ends. The webview handles what reaches it.              *)
Fairness ==
  /\ \A r \in Requests :
       /\ WF_vars(Claim(r) /\ UNCHANGED uiVars)
       /\ SF_vars((TakeHost(r) \/ SpawnSidecar(r)) /\ UNCHANGED uiVars)
       /\ WF_vars((StartOk(r) \/ StartFails(r)) /\ UNCHANGED uiVars)
       /\ WF_vars(CallCancelled(r) /\ UNCHANGED uiVars)
       /\ WF_vars(Return(r) /\ UNCHANGED uiVars)
       /\ WF_vars(Settle(r))
  /\ SF_vars(ExitTakesHost /\ UNCHANGED uiVars)
  /\ WF_vars((ExitShutsDown \/ ExitEnds) /\ UNCHANGED uiVars)
  /\ WF_vars(HandleEvent)

FairSpec == UiSpec /\ Fairness

-----------------------------------------------------------------------------
(* Properties. *)

(* A request is open for the UI until it has been told of its end. *)
Open(r) ==
  /\ request[r] # "new"
  /\ r \notin settled
  /\ \A i \in EventsOf(r) : i <= seen => Chat(r)[i].kind \notin Ends

(* A text delta goes to the last message, whichever that is. It never ends   *)
(* up in the reply to another prompt, even if prompts are sent before the    *)
(* UI knows of the previous one, and results overtake events. The note of a  *)
(* cancel goes the same way and may come before there is a reply. It is put  *)
(* under another prompt or reply than its own only if a prompt did not wait  *)
(* for the rendering, or if that other prompt was rejected and its events    *)
(* came after the rejection.                                                 *)
NoCrossTalk ==
  \A i \in DOMAIN transcript : LET m == transcript[i] IN
    /\ m.role = "assistant" => m.text \subseteq {m.of}
    /\ m.note \subseteq {m.of} \/ hasty \/ m.of \in settled

(* The UI is sending only if it has an open request, so it never waits for   *)
(* nothing; and as long as every prompt waited for the rendering, it has an  *)
(* open request only if it is sending, so that it can be stopped.            *)
SendingIsTrue ==
  app = "running" =>
  /\ sending => \E r \in Requests : Open(r)
  /\ ~hasty /\ (\E r \in Requests : Open(r)) => sending

(* The error line is about what the user did last: a request's error is never *)
(* shown under a later prompt that waited for the rendering, although results *)
(* and events have their own ways; and it does not stay empty when the last   *)
(* prompt has been rejected.                                                  *)
ErrorIsCurrent ==
  app = "running" =>
  /\ error \in Requests => hasty \/ \A r \in Requests : request[r] # "new" => r <= error
  /\ \A r \in settled : (\A q \in Requests : q > r => request[q] = "new")
                         => error # NoRequest

(* A request that has been cancelled, or that is over for any other reason,  *)
(* is soon over for the UI, even if the sidecar never opens the call or      *)
(* never says another word.                                                  *)
EndReachesUi ==
  \A r \in Requests :
    r \in cancels \/ request[r] = "leaving" ~> ~Open(r) \/ app # "running"

(* The app can always be left, whatever its requests and sidecars do.        *)
ExitCompletes == app = "exiting" ~> app = "gone"
=============================================================================
