--------------------------- MODULE ChatHost_proofs ---------------------------
(***************************************************************************)
(* Proofs about ChatHost, for any requests and sessions: its types, that   *)
(* active_requests always matches the requests under way, that the app     *)
(* never has two sidecars, and that the webview is told of each end once.  *)
(***************************************************************************)
EXTENDS ChatHost, TLAPS

(* A request is cancelled only after it has claimed its session. *)
CancelledLate == \A r \in cancels : request[r] \in Live \cup {"done"}

(***************************************************************************)
(* What the mutex on AgentState.host protects: one start at a time, none   *)
(* while a host is there or on its way out; and every sidecar the app has  *)
(* is the host or the one being started.                                   *)
(***************************************************************************)
Starting == {r \in Requests : request[r] = "starting"}

MutexHolds ==
  /\ \A r, q \in Starting : r = q
  /\ Starting # {} => host = NoSidecar /\ app # "stopping"
  /\ \A n \in children : n = host \/ \E r \in Starting : conn[r] = n

IInv == TypeOK /\ EntriesMatch /\ CancelledLate /\ MutexHolds

LEMMA NextCases ==
  ASSUME [Next]_hostVars
  PROVE  \/ \E r \in Requests :
              \/ Invoke(r) \/ Claim(r) \/ TakeHost(r) \/ SpawnSidecar(r)
              \/ StartOk(r) \/ StartFails(r) \/ CallOpens(r) \/ CallFails(r)
              \/ RelayEvent(r) \/ RelayTerminal(r) \/ CallCancelled(r) \/ Return(r)
         \/ \E s \in Sessions : CancelMessage(s)
         \/ Exit \/ ExitTakesHost \/ ExitShutsDown \/ ExitEnds
         \/ \E n \in children : SidecarEnds(n)
         \/ UNCHANGED hostVars
  BY DEF Next, CommandNext, ExitNext

(* An emitted chat-event is one. *)
LEMMA EmitType ==
  ASSUME TypeOK, NEW r \in Requests, NEW kind \in {"started", "text"} \cup Ends,
         Emit(r, kind)
  PROVE  chat' \in [Sessions -> Seq(ChatEvent)]
<1>1. SessionOf[r] \in Sessions BY HostAssumption
<1>2. chat[SessionOf[r]] \in Seq(ChatEvent) BY <1>1 DEF TypeOK
<1>3. [kind |-> kind, by |-> r] \in ChatEvent BY DEF ChatEvent
<1>4. Append(chat[SessionOf[r]], [kind |-> kind, by |-> r]) \in Seq(ChatEvent)
  BY <1>2, <1>3
<1> QED BY <1>4 DEF Emit, TypeOK

(* Every step keeps the types. *)
LEMMA TypeStep ==
  ASSUME TypeOK, [Next]_hostVars
  PROVE  TypeOK'
<1> USE HostAssumption DEF TypeOK, Live
<1>1. ASSUME NEW r \in Requests, Invoke(r) PROVE TypeOK'
  BY <1>1 DEF Invoke, Go, sidecarVars
<1>2. ASSUME NEW r \in Requests, Claim(r) PROVE TypeOK'
  <2>1. SessionOf[r] \in Sessions OBVIOUS
  <2>2. CASE active[SessionOf[r]] # NoRequest
    BY <1>2, <2>2 DEF Claim, Go, sidecarVars
  <2>3. CASE active[SessionOf[r]] = NoRequest
    <3>1. /\ active' = [active EXCEPT ![SessionOf[r]] = r] /\ armed' = armed \cup {r}
          /\ request' = [request EXCEPT ![r] = "claimed"]
          /\ UNCHANGED <<result, cancels, host, conn, spawned, children, app, chat>>
      BY <1>2, <2>3 DEF Claim, Go, sidecarVars
    <3>2. active' \in [Sessions -> Requests \cup {NoRequest}] BY <3>1, <2>1
    <3> QED BY <3>1, <3>2
  <2> QED BY <2>2, <2>3
<1>3. ASSUME NEW r \in Requests, TakeHost(r) PROVE TypeOK'
  BY <1>3 DEF TakeHost, Go
<1>4. ASSUME NEW r \in Requests, SpawnSidecar(r) PROVE TypeOK'
  <2>1. UNCHANGED <<active, armed, cancels, host, app, chat>> BY <1>4 DEF SpawnSidecar
  <2>2. /\ request' \in [Requests -> {"new", "invoked", "done"} \cup Live]
        /\ result' \in [Requests -> {"none", "ok", "error"}]
    BY <1>4 DEF SpawnSidecar, Go, Leave
  <2>3. /\ spawned' \in Nat /\ children' \subseteq 1..spawned'
        /\ conn' \in [Requests -> Nat]
    <3>1. CASE UNCHANGED <<conn, spawned, children>> BY <3>1
    <3>2. CASE /\ spawned' = spawned + 1 /\ children' = children \cup {spawned + 1}
               /\ conn' = [conn EXCEPT ![r] = spawned + 1]
      <4>1. spawned + 1 \in Nat /\ 1..spawned \subseteq 1..(spawned + 1)
            /\ spawned + 1 \in 1..(spawned + 1) OBVIOUS
      <4> QED BY <3>2, <4>1
    <3> QED BY <1>4, <3>1, <3>2 DEF SpawnSidecar
  <2> QED BY <2>1, <2>2, <2>3
<1>5. ASSUME NEW r \in Requests, StartOk(r) PROVE TypeOK'
  BY <1>5 DEF StartOk, Go
<1>6. ASSUME NEW r \in Requests, StartFails(r) PROVE TypeOK'
  BY <1>6 DEF StartFails, Go, Leave
<1>7. ASSUME NEW r \in Requests, CallOpens(r) \/ CallFails(r) PROVE TypeOK'
  <2>1. CASE CallOpens(r) BY <2>1 DEF CallOpens, Go, sidecarVars
  <2>2. CASE CallFails(r) BY <2>2 DEF CallFails, Go, Leave, sidecarVars
  <2> QED BY <1>7, <2>1, <2>2
<1>8. ASSUME NEW r \in Requests, RelayEvent(r) PROVE TypeOK'
  <2>1. chat' \in [Sessions -> Seq(ChatEvent)] BY <1>8, EmitType DEF RelayEvent
  <2> QED BY <1>8, <2>1 DEF RelayEvent, commandVars, sidecarVars
<1>9. ASSUME NEW r \in Requests, RelayTerminal(r) \/ CallCancelled(r) PROVE TypeOK'
  <2>1. chat' \in [Sessions -> Seq(ChatEvent)]
    BY <1>9, EmitType DEF RelayTerminal, CallCancelled, Ends
  <2> QED BY <1>9, <2>1 DEF RelayTerminal, CallCancelled, Go, Leave, sidecarVars
<1>10. ASSUME NEW r \in Requests, Return(r) PROVE TypeOK'
  BY <1>10 DEF Return, Go, sidecarVars
<1>11. ASSUME NEW s \in Sessions, CancelMessage(s) PROVE TypeOK'
  BY <1>11 DEF CancelMessage, sidecarVars
<1>12. CASE Exit \/ ExitTakesHost \/ ExitEnds
  BY <1>12 DEF Exit, ExitTakesHost, ExitEnds, commandVars, sidecarVars
<1>13. CASE ExitShutsDown
  BY <1>13 DEF ExitShutsDown, commandVars, NoSidecar
<1>14. ASSUME NEW n \in children, SidecarEnds(n) PROVE TypeOK'
  BY <1>14 DEF SidecarEnds, commandVars
<1>15. CASE UNCHANGED hostVars
  BY <1>15 DEF hostVars, commandVars, sidecarVars
<1> QED
  BY <1>1, <1>2, <1>3, <1>4, <1>5, <1>6, <1>7, <1>8, <1>9, <1>10, <1>11, <1>12,
     <1>13, <1>14, <1>15, NextCases

(* The entries and the requests move together. *)
LEMMA EntriesStep ==
  ASSUME TypeOK, EntriesMatch, CancelledLate, [Next]_hostVars
  PROVE  EntriesMatch' /\ CancelledLate'
<1> USE HostAssumption DEF TypeOK, EntriesMatch, CancelledLate
\* Between Claim and Return a request moves on, and its entry stays.
<1>m. ASSUME NEW r \in Requests, NEW state \in Live, request[r] \in Live, Go(r, state),
             UNCHANGED <<active, armed, cancels>>
      PROVE  EntriesMatch' /\ CancelledLate'
  BY <1>m DEF Go
<1>u. ASSUME UNCHANGED <<request, active, armed, cancels>>
      PROVE  EntriesMatch' /\ CancelledLate'
  BY <1>u
<1>1. ASSUME NEW r \in Requests, Invoke(r) PROVE EntriesMatch' /\ CancelledLate'
  BY <1>1 DEF Invoke, Go, Live
<1>2. ASSUME NEW r \in Requests, Claim(r) PROVE EntriesMatch' /\ CancelledLate'
  <2>1. CASE active[SessionOf[r]] # NoRequest
    <3>1. /\ request' = [request EXCEPT ![r] = "done"] /\ request[r] = "invoked"
          /\ UNCHANGED <<active, armed, cancels>>
      BY <1>2, <2>1 DEF Claim, Go
    <3>2. "invoked" \notin Live /\ "done" \notin Live BY DEF Live
    <3>3. \A q \in Requests : request'[q] \in Live <=> request[q] \in Live
      BY <3>1, <3>2
    <3>4. \A q \in cancels : request'[q] \in Live \cup {"done"} BY <3>1
    <3> QED BY <3>1, <3>3, <3>4
  <2>2. CASE active[SessionOf[r]] = NoRequest
    <3>1. /\ active' = [active EXCEPT ![SessionOf[r]] = r] /\ armed' = armed \cup {r}
          /\ request' = [request EXCEPT ![r] = "claimed"] /\ request[r] = "invoked"
          /\ UNCHANGED cancels
      BY <1>2, <2>2 DEF Claim, Go
    <3>2. \A q \in Requests : request'[q] \in Live <=> active'[SessionOf[q]] = q
      BY <2>2, <3>1 DEF Live
    <3>3. \A s \in Sessions : active'[s] # NoRequest => SessionOf[active'[s]] = s
      BY <3>1
    <3>4. r \notin cancels BY <3>1 DEF Live
    <3>5. \A q \in armed' : request'[q] \in Live BY <3>1 DEF Live
    <3>6. \A q \in cancels' : request'[q] \in Live \cup {"done"} BY <3>1, <3>4
    <3> QED BY <3>1, <3>2, <3>3, <3>4, <3>5, <3>6
  <2> QED BY <2>1, <2>2
<1>3. ASSUME NEW r \in Requests,
             \/ TakeHost(r) \/ SpawnSidecar(r) \/ StartOk(r) \/ StartFails(r)
             \/ CallOpens(r) \/ CallFails(r) \/ RelayTerminal(r) \/ CallCancelled(r)
      PROVE  EntriesMatch' /\ CancelledLate'
  <2>1. request[r] \in Live /\ UNCHANGED <<active, armed, cancels>>
    BY <1>3 DEF TakeHost, SpawnSidecar, StartOk, StartFails, CallOpens, CallFails,
       RelayTerminal, CallCancelled, Live
  <2>2. \E state \in Live : Go(r, state)
    BY <1>3 DEF TakeHost, SpawnSidecar, StartOk, StartFails, CallOpens, CallFails,
       RelayTerminal, CallCancelled, Leave, Live
  <2> QED BY <1>m, <2>1, <2>2
<1>4. ASSUME NEW r \in Requests, RelayEvent(r) PROVE EntriesMatch' /\ CancelledLate'
  BY <1>4, <1>u DEF RelayEvent, commandVars
<1>5. ASSUME NEW r \in Requests, Return(r) PROVE EntriesMatch' /\ CancelledLate'
  <2>1. /\ request[r] = "leaving" /\ request' = [request EXCEPT ![r] = "done"]
        /\ active' = [active EXCEPT ![SessionOf[r]] = NoRequest]
        /\ armed' = armed \ {active[SessionOf[r]]} /\ UNCHANGED cancels
    BY <1>5 DEF Return, Go
  <2>2. active[SessionOf[r]] = r BY <2>1 DEF Live
  <2>3. \A q \in Requests : request'[q] \in Live <=> active'[SessionOf[q]] = q
    BY <2>1, <2>2 DEF Live
  <2>4. \A s \in Sessions : active'[s] # NoRequest => SessionOf[active'[s]] = s
    BY <2>1
  <2>5. \A q \in armed' : request'[q] \in Live BY <2>1, <2>2
  <2>6. \A q \in cancels' : request'[q] \in Live \cup {"done"} BY <2>1
  <2>7. armed' \cap cancels' = {} BY <2>1
  <2> QED BY <2>3, <2>4, <2>5, <2>6, <2>7
<1>6. ASSUME NEW s \in Sessions, CancelMessage(s) PROVE EntriesMatch' /\ CancelledLate'
  BY <1>6 DEF CancelMessage
<1>7. CASE Exit \/ ExitTakesHost \/ ExitShutsDown \/ ExitEnds
  BY <1>7, <1>u DEF Exit, ExitTakesHost, ExitShutsDown, ExitEnds, commandVars
<1>8. ASSUME NEW n \in children, SidecarEnds(n) PROVE EntriesMatch' /\ CancelledLate'
  BY <1>8, <1>u DEF SidecarEnds, commandVars
<1>9. CASE UNCHANGED hostVars
  BY <1>9, <1>u DEF hostVars, commandVars
<1> QED BY <1>1, <1>2, <1>3, <1>4, <1>5, <1>6, <1>7, <1>8, <1>9, NextCases

(* The mutex does its work. *)
LEMMA MutexStep ==
  ASSUME TypeOK, MutexHolds, [Next]_hostVars
  PROVE  MutexHolds'
<1> USE HostAssumption DEF TypeOK, MutexHolds, Starting
\* Steps of requests that are neither starting nor start.
<1>m. ASSUME NEW r \in Requests, NEW state, Go(r, state), request[r] # "starting",
             state # "starting", UNCHANGED <<host, children, app>>,
             \A q \in Starting : conn'[q] = conn[q]
      PROVE  MutexHolds'
  <2>1. Starting' = Starting BY <1>m DEF Go
  <2> QED BY <1>m, <2>1
<1>u. ASSUME UNCHANGED <<request, host, conn, children>>, app' # "stopping"
      PROVE  MutexHolds'
  BY <1>u
<1>1. ASSUME NEW r \in Requests, TakeHost(r) PROVE MutexHolds'
  <2>1. \A q \in Starting : conn'[q] = conn[q] BY <1>1 DEF TakeHost
  <2> QED BY <1>1, <1>m, <2>1 DEF TakeHost
<1>2. ASSUME NEW r \in Requests, SpawnSidecar(r) PROVE MutexHolds'
  <2>0. Starting = {} /\ host = NoSidecar /\ app # "stopping" /\ children = {}
    <3>1. \A q \in Requests : request[q] # "starting"
      BY <1>2 DEF SpawnSidecar, HostLocked
    <3>2. host = NoSidecar /\ app # "stopping" BY <1>2 DEF SpawnSidecar, HostLocked
    <3>3. \A n \in children : n = host BY <3>1
    <3>4. NoSidecar \notin children BY DEF NoSidecar
    <3> QED BY <3>1, <3>2, <3>3, <3>4
  <2>1. CASE Go(r, "starting") /\ children' = children \cup {spawned + 1}
             /\ conn' = [conn EXCEPT ![r] = spawned + 1]
    <3>1. Starting' = {r} BY <2>0, <2>1 DEF Go
    <3>2. children' = {spawned + 1} /\ conn'[r] = spawned + 1 BY <2>0, <2>1
    <3>3. UNCHANGED <<host, app>> BY <1>2 DEF SpawnSidecar
    <3> QED BY <2>0, <3>1, <3>2, <3>3
  <2>2. CASE Leave(r, "error") /\ UNCHANGED <<conn, children>>
    BY <1>2, <1>m, <2>2 DEF SpawnSidecar, Leave
  <2> QED BY <1>2, <2>1, <2>2 DEF SpawnSidecar
<1>3. ASSUME NEW r \in Requests, StartOk(r) PROVE MutexHolds'
  <2>0. r \in Starting BY <1>3 DEF StartOk
  <2>1. Starting = {r} /\ host = NoSidecar /\ app # "stopping"
    <3> HIDE DEF Starting
    <3> QED BY <2>0
  <2>2. Starting' = {} BY <1>3, <2>1 DEF StartOk, Go
  <2>3. \A n \in children : n = host \/ n = conn[r] BY <2>1
  <2>4. host = NoSidecar /\ NoSidecar \notin children
    <3>1. NoSidecar \notin children BY DEF NoSidecar
    <3> QED BY <2>1, <3>1
  <2> QED BY <1>3, <2>2, <2>3, <2>4 DEF StartOk
<1>4. ASSUME NEW r \in Requests, StartFails(r) PROVE MutexHolds'
  <2>0. r \in Starting BY <1>4 DEF StartFails
  <2>1. Starting = {r} /\ host = NoSidecar /\ app # "stopping"
    <3> HIDE DEF Starting
    <3> QED BY <2>0
  <2>2. Starting' = {} BY <1>4, <2>1 DEF StartFails, Leave, Go
  <2>3. children' = children \ {conn[r]} /\ UNCHANGED <<host, app>>
    BY <1>4 DEF StartFails
  <2> QED BY <2>1, <2>2, <2>3
<1>5. ASSUME NEW r \in Requests,
             \/ Invoke(r) \/ Claim(r) \/ CallOpens(r) \/ CallFails(r)
             \/ RelayTerminal(r) \/ CallCancelled(r) \/ Return(r)
      PROVE  MutexHolds'
  <2>1. /\ UNCHANGED <<host, conn, children, app>> /\ request[r] # "starting"
        /\ \E state : state # "starting" /\ Go(r, state)
    BY <1>5 DEF Invoke, Claim, CallOpens, CallFails, RelayTerminal, CallCancelled,
       Return, Leave, sidecarVars
  <2> QED BY <1>m, <2>1
<1>6. ASSUME NEW r \in Requests, RelayEvent(r) PROVE MutexHolds'
  BY <1>6 DEF RelayEvent, commandVars, sidecarVars
<1>7. ASSUME NEW s \in Sessions, CancelMessage(s) PROVE MutexHolds'
  BY <1>7 DEF CancelMessage, sidecarVars
<1>8. CASE Exit \/ ExitEnds
  BY <1>8, <1>u DEF Exit, ExitEnds, commandVars, sidecarVars
<1>9. CASE ExitTakesHost
  <2>1. Starting = {} BY <1>9 DEF ExitTakesHost, HostLocked
  <2> QED BY <1>9, <2>1 DEF ExitTakesHost, commandVars, sidecarVars
<1>10. CASE ExitShutsDown
  <2>1. Starting = {} BY <1>10 DEF ExitShutsDown
  <2> QED BY <1>10, <2>1 DEF ExitShutsDown, commandVars
<1>11. ASSUME NEW n \in children, SidecarEnds(n) PROVE MutexHolds'
  BY <1>11 DEF SidecarEnds, commandVars
<1>12. CASE UNCHANGED hostVars
  BY <1>12 DEF hostVars, commandVars, sidecarVars
<1> QED
  BY <1>1, <1>2, <1>3, <1>4, <1>5, <1>6, <1>7, <1>8, <1>9, <1>10, <1>11, <1>12, NextCases

THEOREM Invariance == Spec => []IInv
<1>1. Init => IInv
  BY HostAssumption DEF Init, IInv, TypeOK, EntriesMatch, CancelledLate, MutexHolds,
     Starting, Live, NoSidecar
<1>2. ASSUME IInv, [Next]_hostVars PROVE IInv'
  <2>1. TypeOK' BY <1>2, TypeStep DEF IInv
  <2>2. EntriesMatch' /\ CancelledLate' BY <1>2, EntriesStep DEF IInv
  <2>3. MutexHolds' BY <1>2, MutexStep DEF IInv
  <2> QED BY <2>1, <2>2, <2>3 DEF IInv
<1> QED BY <1>1, <1>2, PTL DEF Spec

(* In every execution, every variable keeps its type. *)
THEOREM TypeCorrect == Spec => []TypeOK
<1>1. IInv => TypeOK BY DEF IInv
<1> QED BY <1>1, Invariance, PTL

(* However many requests there are and in however many sessions, and however *)
(* they meet their cancels and the exit, active_requests is always right.    *)
THEOREM EntriesAlwaysMatch == Spec => []EntriesMatch
<1>1. IInv => EntriesMatch BY DEF IInv
<1> QED BY <1>1, Invariance, PTL

(* However many requests find no sidecar, the app never has two.             *)
THEOREM NeverTwoSidecars == Spec => []OneSidecar
<1>1. IInv => OneSidecar
  <2> SUFFICES ASSUME IInv, NEW m \in children, NEW n \in children PROVE m = n
    BY DEF OneSidecar
  <2>1. CASE Starting = {}
    BY <2>1 DEF IInv, MutexHolds
  <2>2. CASE Starting # {}
    <3>1. host = NoSidecar /\ NoSidecar \notin children
      BY <2>2 DEF IInv, MutexHolds, TypeOK, NoSidecar
    <3> QED BY <3>1 DEF IInv, MutexHolds
  <2> QED BY <2>1, <2>2
<1> QED BY <1>1, Invariance, PTL
-----------------------------------------------------------------------------
(* What the webview is told. *)

(* It has been told of the end of a request by an event, and the command has *)
(* returned, or is about to return, Ok.                                      *)
Told(r) == \E i \in EventsOf(r) : Chat(r)[i].kind \in Ends

ReturnsOk(r) == request[r] \in {"leaving", "done"} /\ result[r] = "ok"

LastIfEnd(r) == \A i, j \in EventsOf(r) : i < j => Chat(r)[i].kind \notin Ends

(* A request that is on its way has no result, so that Ok can only come with *)
(* the event.                                                                *)
EndsInv ==
  \A r \in Requests : (Told(r) <=> ReturnsOk(r)) /\ LastIfEnd(r)

(* An event of one request is none of another's.                             *)
LEMMA EmitElsewhere ==
  ASSUME TypeOK, NEW r \in Requests, NEW q \in Requests, q # r, NEW kind, Emit(r, kind)
  PROVE  /\ (Told(q)' <=> Told(q)) /\ (LastIfEnd(q) => LastIfEnd(q)')
         /\ EventsOf(q)' = EventsOf(q)
<1>1. SessionOf[r] \in Sessions /\ SessionOf[q] \in Sessions
  BY HostAssumption
<1>2. chat' = [chat EXCEPT ![SessionOf[r]] = Append(@, [kind |-> kind, by |-> r])]
  BY DEF Emit
<1>3. CASE SessionOf[q] # SessionOf[r]
  <2>1. Chat(q)' = Chat(q)
    BY <1>1, <1>2, <1>3 DEF Chat, TypeOK
  <2> QED
    BY <2>1 DEF Told, LastIfEnd, EventsOf
<1>4. CASE SessionOf[q] = SessionOf[r]
  <2> DEFINE e == [kind |-> kind, by |-> r]
  <2>1. Chat(q)' = Append(Chat(q), e)
    BY <1>1, <1>2, <1>4 DEF Chat, TypeOK
  <2>2. Chat(q) \in Seq(ChatEvent)
    BY <1>1 DEF Chat, TypeOK
  <2>3. e.by # q
    OBVIOUS
  <2> HIDE DEF e
  <2>4. /\ EventsOf(q)' = EventsOf(q)
        /\ \A i \in EventsOf(q) : Chat(q)'[i] = Chat(q)[i]
    BY <2>1, <2>2, <2>3 DEF EventsOf
  <2> QED
    BY <2>4 DEF Told, LastIfEnd
<1> QED
  BY <1>3, <1>4

(* An event of a request that had no end comes last.                         *)
LEMMA EmitHere ==
  ASSUME TypeOK, NEW r \in Requests, NEW kind, Emit(r, kind), ~Told(r)
  PROVE  (Told(r)' <=> kind \in Ends) /\ LastIfEnd(r)'
<1> DEFINE e == [kind |-> kind, by |-> r]
<1>1. SessionOf[r] \in Sessions
  BY HostAssumption
<1>2. Chat(r)' = Append(Chat(r), e)
  BY <1>1 DEF Emit, Chat, TypeOK
<1>3. Chat(r) \in Seq(ChatEvent)
  BY <1>1 DEF Chat, TypeOK
<1>4. e.by = r /\ e.kind = kind
  OBVIOUS
<1> HIDE DEF e
<1>5. /\ EventsOf(r)' = EventsOf(r) \cup {Len(Chat(r)) + 1}
      /\ \A i \in EventsOf(r) : i <= Len(Chat(r)) /\ i \in Nat /\ Chat(r)'[i] = Chat(r)[i]
      /\ Chat(r)'[Len(Chat(r)) + 1] = e
      /\ Len(Chat(r)) \in Nat
  BY <1>2, <1>3, <1>4 DEF EventsOf
<1>6. \A i \in EventsOf(r) : Chat(r)'[i].kind \notin Ends
  BY <1>5 DEF Told
<1>7. Told(r)' <=> kind \in Ends
  BY <1>4, <1>5, <1>6 DEF Told
<1>8. LastIfEnd(r)'
  <2> SUFFICES ASSUME NEW i \in EventsOf(r)', NEW j \in EventsOf(r)', i < j
               PROVE  Chat(r)'[i].kind \notin Ends
    BY DEF LastIfEnd
  <2>1. i \in EventsOf(r)
    BY <1>5
  <2> QED
    BY <1>6, <2>1
<1> QED
  BY <1>7, <1>8

LEMMA EndsStep ==
  ASSUME TypeOK, EndsInv, [Next]_hostVars
  PROVE  EndsInv'
<1>1. ASSUME UNCHANGED chat, \A r \in Requests : ReturnsOk(r)' <=> ReturnsOk(r)
      PROVE  EndsInv'
  <2>1. \A r \in Requests : (Told(r)' <=> Told(r)) /\ (LastIfEnd(r)' <=> LastIfEnd(r))
    BY <1>1 DEF Told, LastIfEnd, EventsOf, Chat
  <2> QED
    BY <1>1, <2>1 DEF EndsInv
<1>2. ASSUME NEW r \in Requests, NEW kind, Emit(r, kind), ~ReturnsOk(r),
             ReturnsOk(r)' <=> kind \in Ends,
             \A q \in Requests : q # r => (ReturnsOk(q)' <=> ReturnsOk(q))
      PROVE  EndsInv'
  <2>1. ~Told(r)
    BY <1>2 DEF EndsInv
  <2>2. (Told(r)' <=> ReturnsOk(r)') /\ LastIfEnd(r)'
    BY <1>2, <2>1, EmitHere
  <2>3. ASSUME NEW q \in Requests, q # r
        PROVE  (Told(q)' <=> ReturnsOk(q)') /\ LastIfEnd(q)'
    BY <1>2, <2>3, EmitElsewhere DEF EndsInv
  <2> QED
    BY <2>2, <2>3 DEF EndsInv
<1> USE DEF ReturnsOk, TypeOK, Go, Leave
<1>3. ASSUME NEW r \in Requests, RelayEvent(r) PROVE EndsInv'
  <2>1. \E kind \in {"started", "text"} : Emit(r, kind)
    BY <1>3 DEF RelayEvent
  <2> QED
    BY <1>2, <1>3, <2>1 DEF RelayEvent, commandVars, Ends
<1>4. ASSUME NEW r \in Requests, RelayTerminal(r) \/ CallCancelled(r) PROVE EndsInv'
  <2>1. \E kind \in Ends : Emit(r, kind)
    BY <1>4 DEF RelayTerminal, CallCancelled, Ends
  <2>2. ~ReturnsOk(r) /\ ReturnsOk(r)'
    BY <1>4 DEF RelayTerminal, CallCancelled
  <2>3. \A q \in Requests : q # r => (ReturnsOk(q)' <=> ReturnsOk(q))
    BY <1>4 DEF RelayTerminal, CallCancelled
  <2> QED
    BY <1>2, <2>1, <2>2, <2>3
<1>5. ASSUME NEW r \in Requests,
             \/ Invoke(r) \/ TakeHost(r) \/ StartOk(r) \/ StartFails(r)
             \/ CallOpens(r) \/ CallFails(r) \/ Return(r)
      PROVE  EndsInv'
  BY <1>1, <1>5 DEF Invoke, TakeHost, StartOk, StartFails, CallOpens, CallFails, Return
<1>6. ASSUME NEW r \in Requests, Claim(r) PROVE EndsInv'
  BY <1>1, <1>6 DEF Claim
<1>7. ASSUME NEW r \in Requests, SpawnSidecar(r) PROVE EndsInv'
  BY <1>1, <1>7 DEF SpawnSidecar
<1>8. ASSUME NEW s \in Sessions, CancelMessage(s) PROVE EndsInv'
  BY <1>1, <1>8 DEF CancelMessage
<1>9. CASE Exit \/ ExitTakesHost \/ ExitShutsDown \/ ExitEnds
  BY <1>1, <1>9 DEF Exit, ExitTakesHost, ExitShutsDown, ExitEnds, commandVars
<1>10. ASSUME NEW n \in children, SidecarEnds(n) PROVE EndsInv'
  BY <1>1, <1>10 DEF SidecarEnds, commandVars
<1>11. CASE UNCHANGED hostVars
  BY <1>1, <1>11 DEF hostVars, commandVars
<1> QED
  BY <1>3, <1>4, <1>5, <1>6, <1>7, <1>8, <1>9, <1>10, <1>11, NextCases

(* ... which holds at first, and always. *)
LEMMA EndsInvariance == Spec => []EndsInv
<1>1. Init => EndsInv
  BY HostAssumption
  DEF Init, EndsInv, Told, ReturnsOk, LastIfEnd, EventsOf, Chat
<1>2. IInv /\ EndsInv /\ [Next]_hostVars => EndsInv'
  BY EndsStep DEF IInv
<1> QED
  BY <1>1, <1>2, Invariance, PTL DEF Spec

(* Through every early return, failure, cancel and exit, the webview learns  *)
(* of the end of a request once: by its last event, or by the command.       *)
THEOREM EndsAlwaysOnce == Spec => []EndsOnce
<1>1. EndsInv => EndsOnce
  BY DEF EndsInv, EndsOnce, Told, ReturnsOk, LastIfEnd
<1> QED
  BY <1>1, EndsInvariance, PTL

-----------------------------------------------------------------------------
(***************************************************************************)
(* The chat-events of a session, which its requests write one after the    *)
(* other: requests come in order, say nothing before their call is open,   *)
(* and one that has begun to speak and not yet ended has spoken last. So a *)
(* text delta always follows an event of its own request.                  *)
(***************************************************************************)
Silent == {"new", "invoked", "claimed", "starting", "opening"}
Speaking(r) == request[r] = "streaming" /\ EventsOf(r) # {}
LastEvent(r) == Chat(r)[Len(Chat(r))]

InOrder == \A r, q \in Requests : request[r] # "new" /\ q < r => request[q] # "new"
SilentBefore == \A r \in Requests : request[r] \in Silent => EventsOf(r) = {}
SpokeLast ==
  \A r \in Requests : Speaking(r) => LastEvent(r).by = r /\ LastEvent(r).kind \notin Ends
TextFollows(log) ==
  \A i \in DOMAIN log : log[i].kind = "text" =>
    /\ i - 1 \in DOMAIN log
    /\ log[i - 1].by = log[i].by /\ log[i - 1].kind \notin Ends

LogInv == InOrder /\ SilentBefore /\ SpokeLast /\ \A s \in Sessions : TextFollows(chat[s])

(* A chat-event of the session's one live request keeps it. *)
LEMMA EmitKeepsLog ==
  ASSUME TypeOK, EntriesMatch, LogInv, NEW r \in Requests,
         NEW kind \in {"started", "text"} \cup Ends, Emit(r, kind),
         request[r] \in {"opening", "streaming"}, kind = "text" => Speaking(r),
         \/ Go(r, "leaving")
         \/ UNCHANGED request /\ request[r] = "streaming" /\ kind \notin Ends
  PROVE  LogInv'
<1> DEFINE e == [kind |-> kind, by |-> r]
<1>0. /\ SessionOf[r] \in Sessions /\ request \in [Requests -> {"new", "invoked", "done"} \cup Live]
      /\ request'[r] \in {"leaving", "streaming"}
      /\ \A q \in Requests : q # r => request'[q] = request[q]
  BY HostAssumption DEF TypeOK, Go
<1>1. /\ Chat(r) \in Seq(ChatEvent) /\ Chat(r)' = Append(Chat(r), e)
      /\ e \in ChatEvent /\ e.by = r /\ e.kind = kind
      /\ \A s \in Sessions : s # SessionOf[r] => chat'[s] = chat[s]
  BY <1>0 DEF Emit, Chat, TypeOK, ChatEvent
<1> HIDE DEF e
<1>2. /\ Len(Chat(r)') = Len(Chat(r)) + 1 /\ Len(Chat(r)) \in Nat
      /\ Chat(r)'[Len(Chat(r)')] = e
      /\ DOMAIN Chat(r) = 1..Len(Chat(r)) /\ DOMAIN Chat(r)' = 1..Len(Chat(r)')
      /\ \A i \in DOMAIN Chat(r) : Chat(r)'[i] = Chat(r)[i]
  BY <1>1
<1>3. InOrder'
  BY <1>0 DEF LogInv, InOrder
<1>4. SilentBefore'
  BY <1>0, EmitElsewhere DEF LogInv, SilentBefore, Silent
<1>5. SpokeLast'
  <2> SUFFICES ASSUME NEW q \in Requests, Speaking(q)'
               PROVE  (LastEvent(q).by = q /\ LastEvent(q).kind \notin Ends)'
    BY DEF SpokeLast
  <2>1. CASE q = r
    <3>1. kind \notin Ends BY <1>0, <2>1 DEF Speaking, Go, TypeOK
    <3> QED BY <1>1, <1>2, <2>1, <3>1 DEF LastEvent
  <2>2. CASE q # r
    <3>1. request[q] = "streaming" /\ EventsOf(q) # {}
      BY <1>0, <2>2, EmitElsewhere DEF Speaking
    \* The session's entry is of both.
    <3>2. SessionOf[q] # SessionOf[r]
      BY <2>2, <3>1 DEF EntriesMatch, Live
    <3>3. SessionOf[q] \in Sessions BY HostAssumption
    <3>4. Chat(q)' = Chat(q) BY <1>1, <3>2, <3>3 DEF Chat
    <3> QED BY <3>1, <3>4 DEF LogInv, SpokeLast, Speaking, LastEvent
  <2> QED BY <2>1, <2>2
<1>6. ASSUME NEW s \in Sessions PROVE TextFollows(chat[s])'
  <2>1. CASE s # SessionOf[r] BY <1>1, <2>1 DEF LogInv, TextFollows
  <2>2. CASE s = SessionOf[r]
    <3>1. TextFollows(Chat(r)) BY <1>0 DEF LogInv, Chat
    <3>2. kind = "text" => /\ Len(Chat(r)) \in DOMAIN Chat(r)
                           /\ LastEvent(r).by = r /\ LastEvent(r).kind \notin Ends
      <4>1. EventsOf(r) # {} => Len(Chat(r)) \in DOMAIN Chat(r)
        BY <1>2 DEF EventsOf
      <4> QED BY <4>1 DEF LogInv, SpokeLast, Speaking
    <3>3. ASSUME NEW i \in DOMAIN Chat(r)', Chat(r)'[i].kind = "text"
          PROVE  /\ i - 1 \in DOMAIN Chat(r)'
                 /\ Chat(r)'[i - 1].by = Chat(r)'[i].by /\ Chat(r)'[i - 1].kind \notin Ends
      <4>1. CASE i \in DOMAIN Chat(r)
        <5>1. i - 1 \in DOMAIN Chat(r) BY <1>2, <3>1, <3>3, <4>1 DEF TextFollows
        <5> QED BY <1>2, <3>1, <3>3, <4>1, <5>1 DEF TextFollows
      <4>2. CASE i = Len(Chat(r)) + 1
        <5>1. i - 1 = Len(Chat(r)) /\ Chat(r)'[i] = e BY <1>2, <4>2
        <5>2. kind = "text" BY <1>1, <3>3, <5>1
        <5>3. /\ Len(Chat(r)) \in DOMAIN Chat(r)' /\ Len(Chat(r)) \in DOMAIN Chat(r)
              /\ Chat(r)'[Len(Chat(r))] = LastEvent(r)
          BY <1>2, <3>2, <5>2 DEF LastEvent
        <5> QED BY <1>1, <3>2, <5>1, <5>2, <5>3
      <4> QED BY <1>2, <4>1, <4>2
    <3>4. TextFollows(Chat(r))' BY <3>3 DEF TextFollows
    <3> QED BY <2>2, <3>4 DEF Chat
  <2> QED BY <2>1, <2>2
<1> QED BY <1>3, <1>4, <1>5, <1>6 DEF LogInv

(* Every other step leaves the events alone. *)
LEMMA LogStep ==
  ASSUME TypeOK, EntriesMatch, LogInv, [Next]_hostVars
  PROVE  LogInv'
<1> USE DEF TypeOK, Go, Leave, Live
\* A step that emits nothing, of a request that speaks up at the earliest now.
<1>u. ASSUME UNCHANGED chat, InOrder',
             \A q \in Requests : request'[q] \in Silent => request[q] \in Silent,
             \A q \in Requests : request'[q] = "streaming" =>
                                   request[q] \in {"opening", "streaming"}
      PROVE  LogInv'
  <2>1. \A q \in Requests : EventsOf(q)' = EventsOf(q) /\ Chat(q)' = Chat(q)
    BY <1>u DEF EventsOf, Chat
  <2>2. SilentBefore' BY <1>u, <2>1 DEF LogInv, SilentBefore
  <2>3. SpokeLast'
    BY <1>u, <2>1 DEF LogInv, SilentBefore, Silent, SpokeLast, Speaking, LastEvent
  <2>4. \A s \in Sessions : TextFollows(chat[s])' BY <1>u DEF LogInv, TextFollows
  <2> QED BY <1>u, <2>2, <2>3, <2>4 DEF LogInv
<1>o. ASSUME \A q \in Requests : request'[q] = "new" <=> request[q] = "new"
      PROVE  InOrder'
  BY <1>o DEF LogInv, InOrder
<1>1. ASSUME NEW r \in Requests, Invoke(r) PROVE LogInv'
  <2>1. /\ request' = [request EXCEPT ![r] = "invoked"] /\ request[r] = "new"
        /\ UNCHANGED chat /\ \A q \in Requests : q < r => request[q] # "new"
    BY <1>1 DEF Invoke
  <2>2. InOrder' BY <2>1 DEF LogInv, InOrder
  <2> QED BY <2>1, <2>2, <1>u DEF Silent
<1>2. ASSUME NEW r \in Requests,
             \/ Claim(r) \/ TakeHost(r) \/ SpawnSidecar(r) \/ StartOk(r) \/ StartFails(r)
             \/ CallOpens(r) \/ CallFails(r) \/ Return(r)
      PROVE  LogInv'
  <2>1. /\ UNCHANGED chat
        /\ \/ request[r] \in Silent \ {"new"} /\ \E state \in Silent \ {"new"} : Go(r, state)
           \/ request[r] # "new" /\ \E state \in {"leaving", "done"} : Go(r, state)
           \/ request[r] = "opening" /\ Go(r, "streaming")
    BY <1>2 DEF Claim, TakeHost, SpawnSidecar, StartOk, StartFails, CallOpens, CallFails,
       Return, Silent
  <2>2. \A q \in Requests :
          /\ request'[q] = "new" <=> request[q] = "new"
          /\ request'[q] \in Silent => request[q] \in Silent
          /\ request'[q] = "streaming" => request[q] \in {"opening", "streaming"}
    BY <2>1 DEF Silent
  <2> QED BY <2>1, <2>2, <1>o, <1>u
<1>3. ASSUME NEW r \in Requests, RelayEvent(r) PROVE LogInv'
  <2>1. /\ request[r] = "streaming" /\ UNCHANGED request
        /\ \/ Emit(r, "started")
           \/ Emit(r, "text") /\ EventsOf(r) # {}
    BY <1>3 DEF RelayEvent, commandVars
  <2> QED BY <2>1, EmitKeepsLog DEF Speaking, Ends
<1>4. ASSUME NEW r \in Requests, RelayTerminal(r) \/ CallCancelled(r) PROVE LogInv'
  <2>1. /\ request[r] \in {"opening", "streaming"} /\ Go(r, "leaving")
        /\ \E kind \in Ends : Emit(r, kind)
    BY <1>4 DEF RelayTerminal, CallCancelled, Ends
  <2> QED BY <2>1, EmitKeepsLog DEF Ends
<1>5. CASE \/ (\E s \in Sessions : CancelMessage(s)) \/ (\E n \in children : SidecarEnds(n))
           \/ Exit \/ ExitTakesHost \/ ExitShutsDown \/ ExitEnds \/ UNCHANGED hostVars
  <2>1. UNCHANGED <<request, chat>>
    BY <1>5 DEF CancelMessage, SidecarEnds, Exit, ExitTakesHost, ExitShutsDown, ExitEnds,
       commandVars, hostVars
  <2> QED BY <2>1, <1>o, <1>u
<1> QED BY <1>1, <1>2, <1>3, <1>4, <1>5, NextCases

LEMMA LogInvariance == Spec => []LogInv
<1>1. Init => LogInv
  BY HostAssumption DEF Init, LogInv, InOrder, SilentBefore, SpokeLast, Speaking,
     TextFollows, EventsOf, Chat
<1>2. IInv /\ LogInv /\ [Next]_hostVars => LogInv'
  BY LogStep DEF IInv
<1> QED BY <1>1, <1>2, Invariance, PTL DEF Spec
=============================================================================
