---------------------------- MODULE ChatUi_proofs ----------------------------
(***************************************************************************)
(* Proofs about ChatUi, for any requests and sessions: in front of the     *)
(* host, whose theorems hold for it, the UI keeps every text delta in the  *)
(* reply to its own prompt, is sending exactly when it has an open request *)
(* and shows the error of what the user did last.                          *)
(***************************************************************************)
EXTENDS ChatUi, ChatHost_proofs

Log == chat[Demo]
NextEvent == Log[seen + 1]
Last == transcript[Len(transcript)]
\* No later request has come.
Latest(r) == \A q \in Requests : request[q] # "new" => q <= r

MessageType ==
  [role : {"user", "assistant"}, of : Requests, text : SUBSET Requests, note : SUBSET Requests]

UiTypeOK ==
  /\ transcript \in Seq(MessageType)
  /\ sending \in BOOLEAN /\ hasty \in BOOLEAN
  /\ seen \in 0..Len(Log) /\ settled \subseteq Requests

SettledFailed == \A r \in settled : request[r] = "done" /\ result[r] = "error"

(* A reply that has begun, and not ended, is the last message, unless a later *)
(* prompt is. So the next text delta, which is of the same request as the     *)
(* event before it, finds its own reply or a prompt.                          *)
ReplyLast ==
  transcript # <<>> /\ seen # 0 /\ Log[seen].kind \notin Ends =>
    Last.role = "user" \/ Last.of = Log[seen].by

(* If every prompt waits for the rendering, only the last one can be open,   *)
(* and nothing has been written since, but what rejected prompts had said.   *)
OneOpen ==
  app = "running" /\ ~hasty =>
    \A r \in Requests : Open(r) =>
      Latest(r) /\ transcript # <<>> /\ Last.of \in {r} \cup settled

HostInv == IInv /\ EndsInv /\ LogInv

UiInv ==
  /\ UiTypeOK /\ SettledFailed /\ ReplyLast /\ OneOpen
  /\ NoCrossTalk /\ SendingIsTrue /\ ErrorIsCurrent

-----------------------------------------------------------------------------
(* The host, seen from the UI. *)

(* A step of the host that the UI does not see. *)
HostStep ==
  \/ \E r \in Requests : CommandNext(r)
  \/ CancelMessage(Demo)
  \/ ExitTakesHost \/ ExitShutsDown \/ ExitEnds
  \/ \E n \in children : SidecarEnds(n)
  \/ UNCHANGED hostVars

LEMMA UiCases ==
  ASSUME [UiNext]_vars
  PROVE  \/ \E r \in Requests : SendPrompt(r) \/ Settle(r)
         \/ HandleEvent \/ Unload
         \/ /\ HostStep
            /\ UNCHANGED <<transcript, sending, seen, settled, hasty>>
            /\ error' = error \/ error' = Demo
  BY DEF UiNext, vars, uiVars, HostStep, HostMoves, Render, PressStop, StopArrives, StopRefused

LEMMA HostNext ==
  ASSUME [UiNext]_vars
  PROVE  [Next]_hostVars
<1>1. HostStep => [Next]_hostVars
  BY UiAssumption DEF HostStep, Next, ExitNext
<1>2. \A r \in Requests : (SendPrompt(r) => Next) /\ (Settle(r) => UNCHANGED hostVars)
  BY DEF SendPrompt, Settle, Next
<1>3. (HandleEvent => UNCHANGED hostVars) /\ (Unload => Next)
  BY DEF HandleEvent, Unload, Next, ExitNext
<1> QED BY <1>1, <1>2, <1>3, UiCases

(* The UI uses the host as ChatHost says, so that everything proved about   *)
(* the host's commands holds with this webview in front of them.            *)
THEOREM HostIsKept == UiSpec => Spec
<1>1. UiInit => Init BY DEF UiInit
<1>2. [UiNext]_vars => [Next]_hostVars BY HostNext
<1> QED BY <1>1, <1>2, PTL DEF UiSpec, Spec

(* What it has said of the session's requests, it has said for good.         *)
LEMMA LogTypes ==
  ASSUME TypeOK
  PROVE  /\ Log \in Seq(ChatEvent) /\ Len(Log) \in Nat /\ DOMAIN Log = 1..Len(Log)
         /\ \A r \in Requests : /\ Chat(r) = Log
                                /\ EventsOf(r) = {i \in 1..Len(Log) : Log[i].by = r}
<1>1. Log \in Seq(ChatEvent) BY UiAssumption DEF TypeOK, Log
<1>2. \A r \in Requests : Chat(r) = Log BY UiAssumption DEF Chat, Log
<1> QED BY <1>1, <1>2 DEF EventsOf

LogGrows ==
  /\ Len(Log)' \in Nat /\ Len(Log) <= Len(Log)' /\ DOMAIN Log' = 1..Len(Log)'
  /\ \A i \in 1..Len(Log) : Log'[i] = Log[i]

LEMMA HostIsQuiet ==
  ASSUME TypeOK, HostStep
  PROVE  /\ app = "running" <=> app' = "running"
         /\ \A r \in Requests : request[r] = "new" <=> request'[r] = "new"
         /\ \A r \in Requests : request[r] = "done" =>
              request'[r] = "done" /\ result'[r] = result[r]
         /\ LogGrows
<1> USE DEF TypeOK, Live, Go, Leave
<1>1. ASSUME NEW r \in Requests, NEW kind \in {"started", "text"} \cup Ends, Emit(r, kind)
      PROVE  LogGrows
  <2>1. [kind |-> kind, by |-> r] \in ChatEvent BY DEF ChatEvent
  <2>2. Log' = Append(Log, [kind |-> kind, by |-> r])
    BY <1>1, UiAssumption DEF Emit, Log
  <2> QED BY <2>1, <2>2, LogTypes DEF LogGrows
<1>2. UNCHANGED chat => LogGrows BY LogTypes DEF LogGrows, Log
<1>3. ASSUME NEW r \in Requests,
             \/ Claim(r) \/ TakeHost(r) \/ SpawnSidecar(r) \/ StartOk(r) \/ StartFails(r)
             \/ CallOpens(r) \/ CallFails(r) \/ Return(r)
      PROVE  /\ UNCHANGED <<app, chat>> /\ request[r] \notin {"new", "done"}
             /\ \E state \in Live \cup {"done"} : Go(r, state)
             /\ UNCHANGED result \/ \E how \in {"ok", "error"} : result' = [result EXCEPT ![r] = how]
  BY <1>3 DEF Claim, TakeHost, SpawnSidecar, StartOk, StartFails, CallOpens, CallFails, Return
<1>4. ASSUME NEW r \in Requests, RelayEvent(r) \/ RelayTerminal(r) \/ CallCancelled(r)
      PROVE  /\ UNCHANGED app /\ request[r] \notin {"new", "done"}
             /\ UNCHANGED request \/ Go(r, "leaving")
             /\ UNCHANGED result \/ \E how \in {"ok", "error"} : result' = [result EXCEPT ![r] = how]
             /\ \E kind \in {"started", "text"} \cup Ends : Emit(r, kind)
  BY <1>4 DEF RelayEvent, RelayTerminal, CallCancelled, commandVars, Ends
<1>5. CASE \/ CancelMessage(Demo) \/ ExitTakesHost \/ ExitShutsDown \/ ExitEnds
           \/ (\E n \in children : SidecarEnds(n)) \/ UNCHANGED hostVars
  <2>1. UNCHANGED <<request, result, chat>> /\ (app = "running" <=> app' = "running")
    BY <1>5 DEF CancelMessage, ExitTakesHost, ExitShutsDown, ExitEnds, SidecarEnds,
       commandVars, hostVars
  <2> QED BY <1>2, <2>1
<1>6. ASSUME NEW r \in Requests, CommandNext(r)
      PROVE  /\ UNCHANGED app /\ request[r] \notin {"new", "done"} /\ LogGrows
             /\ UNCHANGED request \/ \E state \in Live \cup {"done"} : Go(r, state)
             /\ UNCHANGED result \/ \E how \in {"ok", "error"} : result' = [result EXCEPT ![r] = how]
  BY <1>1, <1>2, <1>3, <1>4, <1>6 DEF CommandNext
<1>7. ASSUME NEW r \in Requests, CommandNext(r)
      PROVE  /\ \A q \in Requests : request[q] = "new" <=> request'[q] = "new"
             /\ \A q \in Requests : request[q] = "done" =>
                  request'[q] = "done" /\ result'[q] = result[q]
  BY <1>6, <1>7
<1> QED BY <1>5, <1>6, <1>7 DEF HostStep

-----------------------------------------------------------------------------
(* Which requests are open. *)

(* The next event is of a request the UI still waits for, or has given up;   *)
(* and of the former, if it is an end.                                       *)
LEMMA NextIsOpen ==
  ASSUME HostInv, UiTypeOK, SettledFailed, seen < Len(Log)
  PROVE  /\ NextEvent \in ChatEvent /\ seen + 1 \in 1..Len(Log)
         /\ Open(NextEvent.by) \/ NextEvent.by \in settled
         /\ NextEvent.kind \in Ends => Open(NextEvent.by)
<1> DEFINE r == NextEvent.by
<1>1. TypeOK BY DEF HostInv, IInv
<1>2. NextEvent \in ChatEvent /\ seen + 1 \in 1..Len(Log) /\ seen \in Nat
  BY <1>1, LogTypes DEF NextEvent, UiTypeOK
<1>3. r \in Requests BY <1>2 DEF ChatEvent
<1>4. seen + 1 \in EventsOf(r) /\ Chat(r)[seen + 1] = NextEvent
  BY <1>1, <1>2, <1>3, LogTypes DEF NextEvent
<1> HIDE DEF r
<1>5. request[r] # "new" BY <1>3, <1>4 DEF HostInv, LogInv, SilentBefore, Silent
<1>6. \A i \in EventsOf(r) : i <= seen => Chat(r)[i].kind \notin Ends
  <2>1. \A i \in EventsOf(r) : i \in Nat BY <1>1, <1>3, LogTypes
  <2> QED BY <1>2, <1>3, <1>4, <2>1 DEF HostInv, EndsInv, LastIfEnd
<1>7. r \notin settled => Open(r) BY <1>5, <1>6 DEF Open
<1>8. NextEvent.kind \in Ends => r \notin settled
  BY <1>3, <1>4 DEF HostInv, EndsInv, Told, ReturnsOk, SettledFailed
<1> QED BY <1>2, <1>7, <1>8 DEF r

(* So is a request whose promise is about to be rejected.                    *)
LEMMA SettlingIsOpen ==
  ASSUME HostInv, NEW r \in Requests \ settled, request[r] = "done", result[r] = "error"
  PROVE  Open(r)
  BY DEF HostInv, EndsInv, Told, ReturnsOk, Open

(* The log may grow: a request is open until its end has been handled.       *)
LEMMA OpenStays ==
  ASSUME TypeOK, TypeOK', UiTypeOK, LogGrows, UNCHANGED <<seen, settled>>,
         NEW q \in Requests, request[q] = "new" <=> request'[q] = "new"
  PROVE  Open(q)' <=> Open(q)
<1>1. Chat(q)' = Log' /\ EventsOf(q)' = {i \in 1..Len(Log)' : Log'[i].by = q}
  BY LogTypes, UiAssumption DEF Chat, EventsOf, Log, LogGrows
<1>2. Chat(q) = Log /\ EventsOf(q) = {i \in 1..Len(Log) : Log[i].by = q}
  BY LogTypes
<1>3. seen \in 0..Len(Log) /\ Len(Log) \in Nat BY LogTypes DEF UiTypeOK
<1>4. \A i \in 1..Len(Log)' : i <= seen => i \in 1..Len(Log) /\ Log'[i] = Log[i]
  BY <1>3 DEF LogGrows
<1>5. \A i \in 1..Len(Log) : i \in 1..Len(Log)' /\ Log'[i] = Log[i]
  BY <1>3 DEF LogGrows
<1>6. (\A i \in EventsOf(q)' : i <= seen => Chat(q)'[i].kind \notin Ends)
      <=> (\A i \in EventsOf(q) : i <= seen => Chat(q)[i].kind \notin Ends)
  BY <1>1, <1>2, <1>4, <1>5
<1> QED BY <1>6 DEF Open

LEMMA OpenUntilEnd ==
  ASSUME TypeOK, UiTypeOK, HandleEvent, NEW q \in Requests
  PROVE  Open(q)' <=> Open(q) /\ ~(NextEvent.by = q /\ NextEvent.kind \in Ends)
<1>1. /\ UNCHANGED <<request, settled>> /\ EventsOf(q)' = EventsOf(q) /\ Chat(q)' = Chat(q)
      /\ seen' = seen + 1 /\ seen < Len(Log)
  BY DEF HandleEvent, hostVars, commandVars, EventsOf, Chat, Log
<1>2. Chat(q) = Log /\ EventsOf(q) = {i \in 1..Len(Log) : Log[i].by = q} /\ Len(Log) \in Nat
  BY LogTypes
<1>3. seen \in Nat /\ seen + 1 \in 1..Len(Log) BY <1>1, <1>2 DEF UiTypeOK
<1>4. \A i \in EventsOf(q) : i <= seen + 1 <=> (i <= seen \/ i = seen + 1)
  BY <1>2, <1>3
<1>5. seen + 1 \in EventsOf(q) <=> NextEvent.by = q BY <1>2, <1>3 DEF NextEvent
<1>6. Chat(q)[seen + 1] = NextEvent BY <1>2 DEF NextEvent
<1>7. (\A i \in EventsOf(q) : i <= seen + 1 => Chat(q)[i].kind \notin Ends)
      <=> /\ \A i \in EventsOf(q) : i <= seen => Chat(q)[i].kind \notin Ends
          /\ ~(NextEvent.by = q /\ NextEvent.kind \in Ends)
  BY <1>4, <1>5, <1>6
<1> QED BY <1>1, <1>7 DEF Open

-----------------------------------------------------------------------------
(* The steps of the UI. *)

\* A message: what is added to the last one is added to no other.
LEMMA AddedToLast ==
  ASSUME UiTypeOK, NEW part \in {"text", "note"}, NEW r \in Requests, AddToLast(part, r)
  PROVE  /\ transcript' \in Seq(MessageType) /\ Len(transcript)' = Len(transcript)
         /\ \A i \in DOMAIN transcript :
              /\ transcript'[i].role = transcript[i].role
              /\ transcript'[i].of = transcript[i].of
              /\ i # Len(transcript) \/ part # "text" => transcript'[i].text = transcript[i].text
              /\ i # Len(transcript) \/ part # "note" => transcript'[i].note = transcript[i].note
              /\ transcript'[i].text \subseteq transcript[i].text \cup {r}
              /\ transcript'[i].note \subseteq transcript[i].note \cup {r}
<1>1. /\ transcript \in Seq(MessageType) /\ Len(transcript) \in Nat
      /\ DOMAIN transcript = 1..Len(transcript)
      /\ \A i \in 1..Len(transcript) : transcript[i] \in MessageType
  BY DEF UiTypeOK
<1>2. /\ DOMAIN transcript' = 1..Len(transcript)
      /\ \A i \in 1..Len(transcript) : transcript'[i] =
           IF i = Len(transcript)
             THEN [transcript[i] EXCEPT ![part] = @ \cup {r}] ELSE transcript[i]
      /\ transcript' = [i \in 1..Len(transcript) |-> transcript'[i]]
  BY <1>1 DEF AddToLast
<1>3. ASSUME NEW m \in MessageType
      PROVE  LET n == [m EXCEPT ![part] = @ \cup {r}] IN
               /\ n \in MessageType /\ n.role = m.role /\ n.of = m.of
               /\ part # "text" => n.text = m.text
               /\ part # "note" => n.note = m.note
               /\ n.text \subseteq m.text \cup {r} /\ n.note \subseteq m.note \cup {r}
  <2>1. CASE part = "text" BY <2>1 DEF MessageType
  <2>2. CASE part = "note" BY <2>2 DEF MessageType
  <2> QED BY <2>1, <2>2
<1>4. \A i \in 1..Len(transcript) :
        /\ transcript'[i] \in MessageType
        /\ transcript'[i].role = transcript[i].role
        /\ transcript'[i].of = transcript[i].of
        /\ i # Len(transcript) \/ part # "text" => transcript'[i].text = transcript[i].text
        /\ i # Len(transcript) \/ part # "note" => transcript'[i].note = transcript[i].note
        /\ transcript'[i].text \subseteq transcript[i].text \cup {r}
        /\ transcript'[i].note \subseteq transcript[i].note \cup {r}
  BY <1>1, <1>2, <1>3
<1>5. transcript' \in Seq(MessageType) /\ Len(transcript)' = Len(transcript)
  BY <1>1, <1>2, <1>4
<1> QED BY <1>1, <1>4, <1>5

\* A message is added.
LEMMA OneMoreMessage ==
  ASSUME UiTypeOK, NEW role \in {"user", "assistant"}, NEW r \in Requests,
         transcript' = Append(transcript, Message(role, r))
  PROVE  /\ transcript' \in Seq(MessageType) /\ transcript' # <<>>
         /\ Last'.role = role /\ Last'.of = r
         /\ NoCrossTalk /\ hasty' \in BOOLEAN /\ (hasty => hasty') /\ settled \subseteq settled'
              => NoCrossTalk'
<1> DEFINE m == Message(role, r)
<1>1. /\ m \in MessageType /\ m.role = role /\ m.of = r /\ m.text = {} /\ m.note = {}
  BY DEF Message, MessageType
<1> HIDE DEF m
<1>2. transcript \in Seq(MessageType) /\ Len(transcript) \in Nat BY DEF UiTypeOK
<1>3. /\ transcript' \in Seq(MessageType) /\ Len(transcript)' = Len(transcript) + 1
      /\ transcript'[Len(transcript) + 1] = m
      /\ DOMAIN transcript = 1..Len(transcript) /\ DOMAIN transcript' = 1..(Len(transcript) + 1)
      /\ \A i \in DOMAIN transcript : transcript'[i] = transcript[i]
  BY <1>1, <1>2 DEF m
<1>4. transcript' # <<>> BY <1>2, <1>3
<1>5. Last' = m BY <1>3 DEF Last
<1>6. ASSUME NoCrossTalk, hasty' \in BOOLEAN, hasty => hasty', settled \subseteq settled'
      PROVE  NoCrossTalk'
  <2>1. ASSUME NEW i \in DOMAIN transcript'
        PROVE  /\ transcript'[i].role = "assistant" =>
                    transcript'[i].text \subseteq {transcript'[i].of}
               /\ \/ transcript'[i].note \subseteq {transcript'[i].of} \/ hasty'
                  \/ transcript'[i].of \in settled'
    <3>1. CASE i \in DOMAIN transcript BY <1>3, <1>6, <3>1 DEF NoCrossTalk
    <3>2. CASE i = Len(transcript) + 1 BY <1>1, <1>3, <3>2
    <3> QED BY <1>2, <1>3, <3>1, <3>2
  <2> QED BY <2>1 DEF NoCrossTalk
<1> QED BY <1>1, <1>3, <1>4, <1>5, <1>6

\* A prompt is sent.
LEMMA SendStep ==
  ASSUME HostInv, HostInv', UiInv, NEW r \in Requests, SendPrompt(r)
  PROVE  UiInv'
<1> USE DEF UiInv
<1>0. TypeOK BY DEF HostInv, IInv
<1>1. /\ request[r] = "new" /\ app = "running" /\ request' = [request EXCEPT ![r] = "invoked"]
      /\ UNCHANGED <<result, app, chat, seen, settled>>
      /\ transcript' = Append(transcript, Message("user", r))
      /\ sending' = TRUE /\ hasty' = (hasty \/ sending) /\ error' = NoRequest
  BY DEF SendPrompt, Invoke, Go
<1>2. /\ Log' = Log /\ Log \in Seq(ChatEvent)
      /\ request'[r] = "invoked" /\ \A q \in Requests : q # r => request'[q] = request[q]
      /\ \A q \in Requests : EventsOf(q)' = EventsOf(q) /\ Chat(q)' = Chat(q)
  BY <1>0, <1>1, LogTypes DEF TypeOK, Log, EventsOf, Chat
<1>3. UiTypeOK' BY <1>1, <1>2, OneMoreMessage DEF UiTypeOK
<1>4. r \notin settled BY <1>1 DEF SettledFailed
<1>5. SettledFailed' BY <1>1, <1>2, <1>4 DEF SettledFailed, UiTypeOK
<1>6. ReplyLast' BY <1>1, OneMoreMessage DEF ReplyLast
<1>7. \A q \in Requests : q # r => (Open(q)' <=> Open(q)) BY <1>1, <1>2 DEF Open
<1>8. Open(r)'
  <2>1. EventsOf(r)' = {} BY <1>1, <1>2 DEF HostInv, LogInv, SilentBefore, Silent
  <2> QED BY <1>1, <1>2, <1>4, <2>1 DEF Open
<1>9. \A q \in Requests : request[q] # "new" => q < r
  BY <1>1, HostAssumption DEF HostInv, LogInv, InOrder
<1>10. Latest(r)' BY <1>2, <1>9, HostAssumption DEF Latest
<1>11. OneOpen'
  <2> SUFFICES ASSUME ~hasty', NEW q \in Requests, Open(q)'
               PROVE  (Latest(q) /\ transcript # <<>> /\ Last.of \in {q} \cup settled)'
    BY DEF OneOpen
  <2>1. q = r BY <1>1, <1>7 DEF SendingIsTrue, UiTypeOK
  <2> QED BY <1>1, <1>10, <2>1, OneMoreMessage
<1>12. NoCrossTalk' BY <1>1, <1>3, OneMoreMessage DEF UiTypeOK
<1>13. SendingIsTrue' BY <1>1, <1>8 DEF SendingIsTrue
<1>t. ErrorIsCurrent'
  <2>1. error' \notin Requests BY <1>1, HostAssumption
  <2>2. \A p \in settled' : ~(\A q \in Requests : q > p => request'[q] = "new")
    <3> SUFFICES ASSUME NEW p \in settled PROVE r > p BY <1>1, <1>2
    <3> QED BY <1>9, HostAssumption DEF SettledFailed, UiTypeOK
  <2> QED BY <2>1, <2>2 DEF ErrorIsCurrent
<1> QED BY <1>3, <1>5, <1>6, <1>11, <1>12, <1>13, <1>t

\* A promise is rejected.
LEMMA SettleStep ==
  ASSUME HostInv, UiInv, NEW r \in Requests, Settle(r)
  PROVE  UiInv'
<1> USE DEF UiInv
<1>0. TypeOK BY DEF HostInv, IInv
<1>1. /\ request[r] = "done" /\ result[r] = "error" /\ r \notin settled /\ app = "running"
      /\ UNCHANGED <<request, result, app, chat, seen, transcript, hasty>>
      /\ settled' = settled \cup {r} /\ sending' = FALSE /\ error' = r
  BY DEF Settle, hostVars, commandVars
<1>2. Log' = Log /\ \A q \in Requests : EventsOf(q)' = EventsOf(q) /\ Chat(q)' = Chat(q)
  BY <1>1 DEF Log, EventsOf, Chat
<1>3. UiTypeOK' BY <1>1, <1>2 DEF UiTypeOK
<1>4. SettledFailed' BY <1>1 DEF SettledFailed
<1>5. ReplyLast' BY <1>1, <1>2 DEF ReplyLast, Last
<1>6. \A q \in Requests : Open(q)' <=> Open(q) /\ q # r BY <1>1, <1>2 DEF Open
<1>7. Open(r) BY <1>1, SettlingIsOpen
<1>8. OneOpen'
  BY <1>1, <1>6 DEF OneOpen, Latest, Last
<1>9. NoCrossTalk' BY <1>1 DEF NoCrossTalk
<1>10. ~hasty => Latest(r) /\ \A q \in Requests : Open(q) => q = r
  <2> SUFFICES ASSUME ~hasty PROVE Latest(r) /\ \A q \in Requests : Open(q) => q = r
    OBVIOUS
  <2>1. \A q \in Requests : Open(q) => Latest(q) /\ request[q] # "new"
    BY <1>1 DEF OneOpen, Open
  <2> QED BY <1>7, <2>1, HostAssumption DEF Latest
<1>11. SendingIsTrue' BY <1>1, <1>6, <1>10 DEF SendingIsTrue
<1>12. ErrorIsCurrent'
  <2>1. error' # NoRequest BY <1>1, HostAssumption
  <2>2. hasty' \/ \A q \in Requests : request'[q] # "new" => q <= error'
    BY <1>1, <1>10 DEF Latest, UiTypeOK
  <2> QED BY <2>1, <2>2 DEF ErrorIsCurrent
<1> QED BY <1>3, <1>4, <1>5, <1>8, <1>9, <1>11, <1>12

\* The next chat-event is handled.
LEMMA HandleStep ==
  ASSUME HostInv, UiInv, HandleEvent
  PROVE  UiInv'
<1> DEFINE e == NextEvent
<1> USE DEF UiInv
<1>0. TypeOK BY DEF HostInv, IInv
<1>1. /\ app = "running" /\ seen < Len(Log) /\ seen' = seen + 1
      /\ UNCHANGED <<request, result, app, chat, settled, hasty>>
      /\ \/ /\ e.kind = "started" /\ UNCHANGED <<sending, error>>
            /\ transcript' = Append(transcript, Message("assistant", e.by))
         \/ e.kind = "text" /\ AddToLast("text", e.by) /\ UNCHANGED <<sending, error>>
         \/ /\ e.kind = "cancelled" /\ AddToLast("note", e.by) /\ sending' = FALSE
            /\ UNCHANGED error
         \/ /\ e.kind = "ended" /\ sending' = FALSE /\ error' \in {error, e.by}
            /\ UNCHANGED transcript
  BY DEF HandleEvent, hostVars, commandVars, NextEvent, Log
<1>2. /\ e \in ChatEvent /\ e.by \in Requests /\ seen + 1 \in 1..Len(Log)
      /\ Open(e.by) \/ e.by \in settled
      /\ e.kind \in Ends => Open(e.by)
      /\ Log \in Seq(ChatEvent) /\ Len(Log) \in Nat /\ seen \in Nat
  BY <1>0, <1>1, NextIsOpen, LogTypes DEF ChatEvent, UiTypeOK
<1>3. Log' = Log /\ Log'[seen'] = e BY <1>1 DEF Log, NextEvent
<1>4. \A q \in Requests : Open(q)' <=> Open(q) /\ ~(e.by = q /\ e.kind \in Ends)
  BY <1>0, OpenUntilEnd
<1>5. ~hasty => \A q \in Requests : Open(q) /\ Open(e.by) => q = e.by
  <2> SUFFICES ASSUME ~hasty, NEW q \in Requests, Open(q), Open(e.by) PROVE q = e.by
    OBVIOUS
  <2>1. q <= e.by /\ e.by <= q BY <1>1, <1>2 DEF OneOpen, Latest, Open
  <2> QED BY <1>2, <2>1, HostAssumption
<1>6. SettledFailed' BY <1>1 DEF SettledFailed
<1>t. /\ seen' \in 0..Len(Log)' /\ settled' \subseteq Requests
      /\ sending' \in BOOLEAN /\ hasty' \in BOOLEAN
  <2>1. Len(Log)' = Len(Log) BY <1>3
  <2>2. seen' \in 0..Len(Log)' BY <1>1, <1>2, <2>1
  <2>3. settled' \subseteq Requests BY <1>1 DEF UiTypeOK
  <2>4. sending' \in BOOLEAN /\ hasty' \in BOOLEAN BY <1>1 DEF UiTypeOK
  <2> QED BY <2>2, <2>3, <2>4
\* The last message is of the request whose text is to be added.
<1>7. e.kind = "text" => seen # 0 /\ Log[seen].by = e.by /\ Log[seen].kind \notin Ends
  <2>1. TextFollows(Log) BY UiAssumption DEF HostInv, LogInv, Log
  <2>2. seen + 1 \in DOMAIN Log /\ Log[seen + 1] = e /\ (seen + 1) - 1 = seen
    BY <1>2 DEF NextEvent
  <2>3. 0 \notin DOMAIN Log BY <1>2
  <2> HIDE DEF e
  <2> QED BY <2>1, <2>2, <2>3 DEF TextFollows
<1>8. e.kind = "text" /\ transcript # <<>> => Last.role = "user" \/ Last.of = e.by
  BY <1>7 DEF ReplyLast
<1>9. SendingIsTrue'
  <2>1. CASE e.kind \in Ends BY <1>1, <1>2, <1>4, <1>5, <2>1 DEF SendingIsTrue, Ends
  <2>2. CASE e.kind \notin Ends BY <1>1, <1>4, <2>2 DEF SendingIsTrue, Ends
  <2> QED BY <2>1, <2>2
<1>10. ErrorIsCurrent'
  <2>1. UNCHANGED error => ErrorIsCurrent' BY <1>1 DEF ErrorIsCurrent
  <2>2. CASE error' = e.by /\ e.kind = "ended"
    <3>1. Open(e.by) BY <1>2, <2>2 DEF Ends
    <3>2. ~hasty => Latest(e.by) BY <1>1, <1>2, <3>1 DEF OneOpen
    <3>3. error' # NoRequest BY <1>2, <2>2, HostAssumption
    <3> QED BY <1>1, <2>2, <3>2, <3>3 DEF ErrorIsCurrent, Latest, UiTypeOK
  <2> QED BY <1>1, <2>1, <2>2
\* A reply begins.
<1>11. CASE e.kind = "started"
  <2>1. transcript' = Append(transcript, Message("assistant", e.by)) BY <1>1, <1>11 DEF Ends
  <2>2. /\ transcript' \in Seq(MessageType) /\ transcript' # <<>> /\ Last'.of = e.by
        /\ NoCrossTalk'
    BY <1>1, <1>2, <2>1, OneMoreMessage DEF UiTypeOK
  <2>3. UiTypeOK' BY <1>t, <2>2 DEF UiTypeOK
  <2>4. ReplyLast' BY <1>3, <2>2 DEF ReplyLast
  <2>5. OneOpen' BY <1>1, <1>2, <1>4, <1>5, <2>2 DEF OneOpen, Latest
  <2> QED BY <1>6, <1>9, <1>10, <2>2, <2>3, <2>4, <2>5
\* Something is added to the last message.
<1>12. ASSUME NEW part \in {"text", "note"}, AddToLast(part, e.by),
              \/ part = "text" /\ e.kind = "text"
              \/ part = "note" /\ e.kind = "cancelled"
       PROVE  UiInv'
  <2>1. /\ transcript' \in Seq(MessageType) /\ Len(transcript)' = Len(transcript)
        /\ \A i \in DOMAIN transcript :
              /\ transcript'[i].role = transcript[i].role
              /\ transcript'[i].of = transcript[i].of
              /\ i # Len(transcript) \/ part # "text" =>
                   transcript'[i].text = transcript[i].text
              /\ i # Len(transcript) \/ part # "note" =>
                   transcript'[i].note = transcript[i].note
              /\ transcript'[i].text \subseteq transcript[i].text \cup {e.by}
              /\ transcript'[i].note \subseteq transcript[i].note \cup {e.by}
    BY <1>2, <1>12, AddedToLast
  <2>2. /\ transcript \in Seq(MessageType) /\ DOMAIN transcript = 1..Len(transcript)
        /\ DOMAIN transcript' = DOMAIN transcript /\ Len(transcript) \in Nat
    BY <2>1 DEF UiTypeOK
  <2>3. transcript' # <<>> => /\ transcript # <<>> /\ Len(transcript) \in DOMAIN transcript
                              /\ Last'.role = Last.role /\ Last'.of = Last.of
    BY <2>1, <2>2 DEF Last
  <2>4. transcript # <<>> => transcript' # <<>> BY <2>1, <2>2
  <2>5. UiTypeOK' BY <1>t, <2>1 DEF UiTypeOK
  <2>6. ReplyLast' BY <1>3, <1>8, <1>12, <2>3 DEF ReplyLast, Ends
  <2>7. OneOpen' BY <1>1, <1>4, <2>3, <2>4 DEF OneOpen, Latest
  <2>8. part = "note" => hasty \/ (transcript # <<>> /\ Last.of \in {e.by} \cup settled)
    BY <1>1, <1>2, <1>12 DEF OneOpen, Ends
  <2>9. ASSUME NEW i \in DOMAIN transcript'
        PROVE  /\ transcript'[i].role = "assistant" =>
                    transcript'[i].text \subseteq {transcript'[i].of}
               /\ \/ transcript'[i].note \subseteq {transcript'[i].of} \/ hasty'
                  \/ transcript'[i].of \in settled'
    <3>1. i \in DOMAIN transcript BY <2>2
    <3>2. /\ transcript[i].role = "assistant" => transcript[i].text \subseteq {transcript[i].of}
          /\ transcript[i].note \subseteq {transcript[i].of} \/ hasty \/ transcript[i].of \in settled
      BY <3>1 DEF NoCrossTalk
    <3>3. CASE i # Len(transcript) BY <1>1, <2>1, <3>1, <3>2, <3>3
    <3>4. CASE i = Len(transcript)
      <4>1. transcript # <<>> /\ transcript[i] = Last BY <2>2, <3>1, <3>4 DEF Last
      <4>2. CASE part = "text"
        BY <1>1, <1>8, <1>12, <2>1, <3>1, <3>2, <4>1, <4>2
      <4>3. CASE part = "note"
        BY <1>1, <2>1, <2>8, <3>1, <3>2, <4>1, <4>3
      <4> QED BY <4>2, <4>3
    <3> QED BY <3>3, <3>4
  <2>10. NoCrossTalk' BY <2>9 DEF NoCrossTalk
  <2> QED BY <1>6, <1>9, <1>10, <2>5, <2>6, <2>7, <2>10
\* Nothing is.
<1>13. CASE e.kind = "ended"
  <2>1. UNCHANGED transcript /\ sending' = FALSE BY <1>1, <1>13
  <2>2. UiTypeOK' BY <1>t, <2>1 DEF UiTypeOK
  <2>3. ReplyLast' BY <1>3, <1>13 DEF ReplyLast, Ends
  <2>4. OneOpen' BY <1>1, <1>4, <2>1 DEF OneOpen, Latest, Last
  <2>5. NoCrossTalk' BY <1>1, <2>1 DEF NoCrossTalk
  <2> QED BY <1>6, <1>9, <1>10, <2>2, <2>3, <2>4, <2>5
<1> QED BY <1>1, <1>11, <1>12, <1>13

\* The host moves, or the UI does without touching what is proved.
LEMMA QuietStep ==
  ASSUME HostInv, HostInv', UiInv, HostStep,
         UNCHANGED <<transcript, sending, seen, settled, hasty>>,
         error' = error \/ error' = Demo
  PROVE  UiInv'
<1> USE DEF UiInv
<1>0. TypeOK /\ TypeOK' BY DEF HostInv, IInv
<1>1. /\ app = "running" <=> app' = "running"
      /\ \A r \in Requests : request[r] = "new" <=> request'[r] = "new"
      /\ \A r \in Requests : request[r] = "done" =>
           request'[r] = "done" /\ result'[r] = result[r]
      /\ LogGrows
  BY <1>0, HostIsQuiet
<1>2. \A q \in Requests : Open(q)' <=> Open(q) BY <1>0, <1>1, OpenStays
<1>3. \A q \in Requests : Latest(q)' <=> Latest(q) BY <1>1 DEF Latest
<1>4. UiTypeOK' BY <1>0, <1>1, LogTypes DEF UiTypeOK, LogGrows
<1>5. SettledFailed' BY <1>1 DEF SettledFailed, UiTypeOK
<1>6. ReplyLast'
  <2>1. seen # 0 => seen \in 1..Len(Log) BY <1>0, LogTypes DEF UiTypeOK
  <2>2. seen # 0 => Log'[seen] = Log[seen] BY <1>1, <2>1 DEF LogGrows
  <2> QED BY <2>2 DEF ReplyLast, Last
<1>7. OneOpen' BY <1>1, <1>2, <1>3 DEF OneOpen, Last
<1>8. NoCrossTalk' BY DEF NoCrossTalk
<1>9. SendingIsTrue' BY <1>1, <1>2 DEF SendingIsTrue
<1>10. ErrorIsCurrent'
  BY <1>1, UiAssumption DEF ErrorIsCurrent, UiTypeOK
<1> QED BY <1>4, <1>5, <1>6, <1>7, <1>8, <1>9, <1>10

\* The webview is gone.
LEMMA UnloadStep ==
  ASSUME HostInv, UiInv, Unload
  PROVE  UiInv'
<1>0. TypeOK BY DEF HostInv, IInv
<1>1. /\ app' = "exiting" /\ Log' = Log /\ Len(Log) \in Nat
      /\ transcript' = <<>> /\ sending' = FALSE /\ seen' = 0 /\ settled' = {}
      /\ hasty' = FALSE
  BY <1>0, LogTypes DEF Unload, Exit, Log
<1>2. UiTypeOK'
  <2>1. Len(Log)' = Len(Log) BY <1>1
  <2>2. seen' \in 0..Len(Log)' BY <1>1, <2>1
  <2>3. transcript' \in Seq(MessageType) BY <1>1
  <2> QED BY <1>1, <2>2, <2>3 DEF UiTypeOK
<1> QED
  BY <1>1, <1>2 DEF UiInv, SettledFailed, ReplyLast, OneOpen, NoCrossTalk, SendingIsTrue,
     ErrorIsCurrent

-----------------------------------------------------------------------------

(* Every step of the UI and of its host keeps the invariant of both.        *)
THEOREM UiInvariance == UiSpec => [](HostInv /\ UiInv)
<1>1. UiSpec => []HostInv
  BY HostIsKept, Invariance, EndsInvariance, LogInvariance, PTL DEF HostInv
<1>2. UiInit => UiInv
  <2> SUFFICES ASSUME UiInit PROVE UiInv OBVIOUS
  <2>1. /\ Log = <<>> /\ transcript = <<>> /\ sending = FALSE /\ hasty = FALSE
        /\ seen = 0 /\ settled = {} /\ error = NoRequest
        /\ \A r \in Requests : ~Open(r)
    BY UiAssumption DEF UiInit, Init, Log, Open
  <2>2. seen \in 0..Len(Log) /\ transcript \in Seq(MessageType) BY <2>1
  <2>3. UiTypeOK BY <2>1, <2>2 DEF UiTypeOK
  <2> QED
    BY <2>1, <2>3, HostAssumption
    DEF UiInv, SettledFailed, ReplyLast, OneOpen, NoCrossTalk, SendingIsTrue, ErrorIsCurrent
<1>3. HostInv /\ HostInv' /\ UiInv /\ [UiNext]_vars => UiInv'
  BY UiCases, SendStep, SettleStep, HandleStep, UnloadStep, QuietStep
<1> QED BY <1>1, <1>2, <1>3, PTL DEF UiSpec

(* A text delta never ends up in the reply to another prompt, nor does the   *)
(* note of a cancel, but after a prompt that did not wait for the rendering  *)
(* or under one that was rejected before its events came.                    *)
THEOREM NeverCrossTalk == UiSpec => []NoCrossTalk
<1>1. UiInv => NoCrossTalk BY DEF UiInv
<1> QED BY <1>1, UiInvariance, PTL

(* The UI is sending only if it has an open request; and if every prompt     *)
(* waited for the rendering, whenever it has one, so that it can be stopped. *)
THEOREM SendingIsAlwaysTrue == UiSpec => []SendingIsTrue
<1>1. UiInv => SendingIsTrue BY DEF UiInv
<1> QED BY <1>1, UiInvariance, PTL

(* The error line is about what the user did last.                           *)
THEOREM ErrorIsAlwaysCurrent == UiSpec => []ErrorIsCurrent
<1>1. UiInv => ErrorIsCurrent BY DEF UiInv
<1> QED BY <1>1, UiInvariance, PTL
=============================================================================
