------------------------- MODULE RustSidecar_proofs -------------------------
(***************************************************************************)
(* Proofs about RustSidecar, for every set of calls, host, capacity and    *)
(* bound: its type invariant, that its decisions reach the call they name, *)
(* the approval gate, that a call ends with a terminal event, and that the *)
(* sidecar implements AgentTurn.                                           *)
(***************************************************************************)
EXTENDS RustSidecar, InteractStream_proofs

(***************************************************************************)
(* What makes the gate inductive. Approvals are used in the order of their *)
(* positions: the one in the oneshot, and then the one the running tool    *)
(* holds, comes after every approval that a write was made under, and a    *)
(* position that has been read never holds another message.                *)
(***************************************************************************)
Positions ==
  /\ runner \in {"register", "ask", "wait", "tool", "announce"} => calls # <<>>
  /\ AnswersAnEvent
  /\ slot \in Nat \ {Empty} => slot <= read /\ \A w \in writes : w.by < slot
  /\ runner = "tool" =>
       grant <= read /\ Approves(msgs, grant, Call) /\ \A w \in writes : w.by < grant

IInv == TypeOK /\ Positions /\ DecisionsMatch /\ GateHolds

(* The actions of Next, one by one: the case split of the step lemmas. *)
LEMMA NextCases ==
  ASSUME [Next]_vars
  PROVE  \/ InteractRejects \/ InteractAccepts
         \/ EmitStarted \/ EmitText \/ ModelEnds \/ Register \/ EmitRequest
         \/ TakeDecision \/ RunTool \/ EmitLens \/ EmitError \/ EmitCompleted
         \/ HandleMessage \/ ReadEnd \/ ReadError
         \/ DropReceiver \/ TransmitEvent \/ EndResponse
         \/ HostStep \/ UNCHANGED vars
  BY DEF Next, RunnerNext, ReaderNext, TonicNext

(* A round goes on as long as it has a call left. *)
LEMMA NextCallLeft ==
  ASSUME calls \in Seq(CallIds), calls # <<>>, NextCall
  PROVE  /\ runner' \in {"register", "streaming"}
         /\ calls' \in Seq(CallIds)
         /\ runner' = "register" => calls' # <<>>
<1>1. Len(calls) \in Nat \ {0} OBVIOUS
<1>2. calls' \in Seq(CallIds) /\ Len(calls') = Len(calls) - 1
  BY <1>1 DEF NextCall
<1>3. runner' = "register" => Len(calls') # 0
  BY <1>1, <1>2 DEF NextCall
<1> QED BY <1>2, <1>3 DEF NextCall

(* Every step keeps the types. *)
LEMMA TypeStep ==
  ASSUME TypeOK, Positions, [Next]_vars
  PROVE  TypeOK'
<1> USE NoCallAssumption, StreamAssumption, RustAssumption
        DEF TypeOK, StreamTypeOK
<1>p. /\ runner \in {"register", "ask", "wait", "tool", "announce"} => calls # <<>>
      /\ AnswersAnEvent
  BY DEF Positions
<1>s. ASSUME NEW kind \in EventKinds PROVE Signal(kind) \in AgentEvent
  BY SignalFields
<1>c. calls # <<>> => Call \in CallIds /\ Tail(calls) \in Seq(CallIds)
  BY DEF Call
\* What an emit, successful or not, leaves of the response stream.
<1>m. ASSUME NEW e \in AgentEvent, EmitOk(e) \/ EmitErr
      PROVE  events' \in Seq(AgentEvent) /\ Len(events) <= Len(events')
  <2>1. CASE EmitOk(e) BY <2>1 DEF EmitOk
  <2>2. CASE EmitErr BY <2>2 DEF EmitErr
  <2> QED BY <1>m, <2>1, <2>2
<1>1. CASE InteractRejects
  BY <1>1 DEF InteractRejects, runnerVars, approvalVars
<1>2. CASE InteractAccepts
  BY <1>2 DEF InteractAccepts, runnerVars, approvalVars
<1>3. CASE EmitStarted
  <2>1. Signal("started") \in AgentEvent BY <1>s DEF EventKinds
  <2>2. EmitOk(Signal("started")) \/ EmitErr
    BY <1>3 DEF EmitStarted, EmitThen
  <2>3. events' \in Seq(AgentEvent) /\ Len(events) <= Len(events')
    BY <1>m, <2>1, <2>2
  <2> QED BY <1>3, <2>3 DEF EmitStarted, EmitThen, Return,
             OtherThanEvents, approvalVars
<1>4. CASE EmitText
  <2>1. Signal("text") \in AgentEvent BY <1>s DEF EventKinds
  <2>2. EmitOk(Signal("text")) \/ EmitErr
    BY <1>4 DEF EmitText, EmitThen
  <2>3. events' \in Seq(AgentEvent) /\ Len(events) <= Len(events')
    BY <1>m, <2>1, <2>2
  <2> QED BY <1>4, <2>3 DEF EmitText, EmitThen, Return,
             OtherThanEvents, approvalVars
<1>5. CASE ModelEnds
  BY <1>5 DEF ModelEnds, streamVars, approvalVars
<1>6. CASE Register
  BY <1>6, <1>c, <1>p DEF Register, streamVars, Empty
<1>7. CASE EmitRequest
  <2>1. Request(Call) \in AgentEvent
    BY <1>7, <1>c, <1>p, RequestFields DEF EmitRequest
  <2>2. EmitOk(Request(Call)) \/ EmitErr
    BY <1>7 DEF EmitRequest, EmitThen
  <2>3. events' \in Seq(AgentEvent) /\ Len(events) <= Len(events')
    BY <1>m, <2>1, <2>2
  <2> QED BY <1>7, <2>3 DEF EmitRequest, EmitThen, Return,
             OtherThanEvents, approvalVars, Empty
<1>8. CASE TakeDecision
  <2>1. /\ UNCHANGED <<streamVars, round, pending, receiver, writes>>
        /\ slot' = Empty
    BY <1>8 DEF TakeDecision
  <2>2. grant' \in Nat BY <1>8 DEF TakeDecision, Empty, Dropped
  <2>3. calls' \in Seq(CallIds) BY <1>8, <1>c, <1>p DEF TakeDecision, NextCall
  <2>4. /\ runner' \in {"done", "tool", "streaming", "register"}
        /\ reader' \in {reader, "aborted"}
    BY <1>8 DEF TakeDecision, NextCall, Return
  <2> QED BY <2>1, <2>2, <2>3, <2>4 DEF streamVars, Empty
<1>9. CASE RunTool
  <2>1. Write(Call, grant, 0, TRUE) \in Writes /\ Write(Call, grant, 0, FALSE) \in Writes
    BY <1>9, <1>c, <1>p DEF RunTool, Write, Writes
  <2>2. writes' \subseteq Writes BY <1>9, <2>1, Zenon DEF RunTool
  <2>3. runner' \in {"fail", "announce"} BY <1>9, Zenon DEF RunTool
  <2>4. /\ UNCHANGED <<token, msgs, read, events, sent, delivered, link, response, host>>
        /\ UNCHANGED <<calls, round, pending, slot, grant, reader, receiver>>
    BY <1>9 DEF RunTool, streamVars, approvalVars
  <2>5. StreamTypeOK' BY <2>4
  <2> QED BY <2>2, <2>3, <2>4, <2>5
<1>10. CASE EmitLens
  <2>1. Lens(Call, grant, 0) \in AgentEvent
    BY <1>10, <1>c, <1>p, LensFields DEF EmitLens
  <2>2. EmitOk(Lens(Call, grant, 0)) \/ EmitErr
    BY <1>10 DEF EmitLens
  <2>3. events' \in Seq(AgentEvent) /\ Len(events) <= Len(events')
    BY <1>m, <2>1, <2>2
  <2>4. calls' \in Seq(CallIds)
    BY <1>10, <1>c, <1>p DEF EmitLens, NextCall
  <2>5. runner' \in {"done", "streaming", "register"}
        /\ reader' \in {"idle", "reading", "stopped", "aborted"}
    BY <1>10 DEF EmitLens, NextCall, Return
  <2> QED BY <1>10, <2>3, <2>4, <2>5 DEF EmitLens, OtherThanEvents, approvalVars
<1>11. CASE EmitError
  <2>1. Signal("error") \in AgentEvent BY <1>s DEF EventKinds
  <2>2. EmitOk(Signal("error")) \/ EmitErr
    BY <1>11 DEF EmitError, EmitLast
  <2>3. events' \in Seq(AgentEvent) /\ Len(events) <= Len(events')
    BY <1>m, <2>1, <2>2
  <2> QED BY <1>11, <2>3 DEF EmitError, EmitLast, Return,
             OtherThanEvents, approvalVars
<1>12. CASE EmitCompleted
  <2>1. Signal("completed") \in AgentEvent BY <1>s DEF EventKinds
  <2>2. EmitOk(Signal("completed")) \/ EmitErr
    BY <1>12 DEF EmitCompleted, EmitLast
  <2>3. events' \in Seq(AgentEvent) /\ Len(events) <= Len(events')
    BY <1>m, <2>1, <2>2
  <2> QED BY <1>12, <2>3 DEF EmitCompleted, EmitLast, Return,
             OtherThanEvents, approvalVars
<1>13. CASE HandleMessage
  BY <1>13 DEF HandleMessage, runnerVars, approvalVars
<1>14. CASE ReadEnd
  BY <1>14 DEF ReadEnd, streamVars, runnerVars, approvalVars
<1>15. CASE ReadError
  BY <1>15 DEF ReadError, streamVars, runnerVars, Dropped
<1>16. CASE DropReceiver
  <2>1. /\ UNCHANGED <<token, msgs, read, events, sent, delivered, link, response, host>>
        /\ UNCHANGED <<runner, calls, round, pending, slot, grant, reader, writes>>
    BY <1>16 DEF DropReceiver, streamVars, runnerVars, approvalVars
  <2>2. receiver' \in BOOLEAN BY <1>16 DEF DropReceiver
  <2>3. StreamTypeOK' BY <2>1
  <2> QED BY <2>1, <2>2, <2>3
<1>17. CASE TransmitEvent
  BY <1>17 DEF TransmitEvent, Transmit, runnerVars, approvalVars
<1>18. CASE EndResponse
  BY <1>18 DEF EndResponse, runnerVars, approvalVars
<1>19. CASE HostStep
  <2>1. StreamTypeOK' BY <1>19, <1>p, HostMoves DEF HostStep
  <2> QED BY <1>19, <2>1 DEF HostStep, runnerVars, approvalVars
<1>20. CASE UNCHANGED vars
  BY <1>20 DEF vars, streamVars, runnerVars, approvalVars
<1> QED
  BY <1>1, <1>2, <1>3, <1>4, <1>5, <1>6, <1>7, <1>8, <1>9, <1>10, <1>11, <1>12,
     <1>13, <1>14, <1>15, <1>16, <1>17, <1>18, <1>19, <1>20, NextCases

-----------------------------------------------------------------------------
(* Every step keeps the order of the positions. *)
LEMMA PositionsStep ==
  ASSUME IInv, [Next]_vars
  PROVE  Positions'
<1> USE NoCallAssumption, StreamAssumption, RustAssumption
        DEF IInv, TypeOK, StreamTypeOK, Positions, AnswersAnEvent, Approves, Empty, Dropped, Call
<1>1. CASE InteractRejects
  BY <1>1 DEF InteractRejects, runnerVars, approvalVars
<1>2. CASE InteractAccepts
  BY <1>2 DEF InteractAccepts, runnerVars, approvalVars, DecisionsMatch
<1>3. CASE EmitStarted
  BY <1>3 DEF EmitStarted, EmitThen, EmitErr, Return, OtherThanEvents, approvalVars
<1>4. CASE EmitText
  BY <1>4 DEF EmitText, EmitThen, EmitErr, Return, OtherThanEvents, approvalVars
<1>5. CASE ModelEnds
  BY <1>5 DEF ModelEnds, streamVars, approvalVars
<1>6. CASE Register
  BY <1>6 DEF Register, streamVars
<1>7. CASE EmitRequest
  BY <1>7 DEF EmitRequest, EmitThen, EmitErr, Return, OtherThanEvents, approvalVars
<1>8. CASE TakeDecision
  <2>1. slot' = Empty /\ UNCHANGED <<host, delivered, writes, read, msgs>>
    BY <1>8 DEF TakeDecision, streamVars
  <2>2. CASE slot = Dropped /\ Return
    BY <2>1, <2>2 DEF Return
  <2>3. CASE runner' = "tool" /\ grant' = slot /\ UNCHANGED calls /\ slot # Dropped
             /\ msgs[slot].kind = "approved"
    <3>1. slot \in 1..read /\ slot \in 1..Len(msgs) BY <1>8, <2>3 DEF TakeDecision
    <3>2. msgs[slot].id = Call BY <1>8, <2>3 DEF TakeDecision, DecisionsMatch
    <3>3. calls # <<>> BY <1>8 DEF TakeDecision
    <3> QED BY <2>1, <2>3, <3>1, <3>2, <3>3, <1>8 DEF TakeDecision
  <2>4. CASE NextCall
    <3>1. calls # <<>> BY <1>8 DEF TakeDecision
    <3>2. runner' \in {"register", "streaming"} /\ (runner' = "register" => calls' # <<>>)
      BY <2>4, <3>1, NextCallLeft
    <3> QED BY <2>1, <3>2
  <2> QED BY <1>8, <2>2, <2>3, <2>4 DEF TakeDecision
<1>9. CASE RunTool
  <2>1. slot = Empty BY <1>9 DEF RunTool, DecisionsMatch
  <2> QED BY <1>9, <2>1 DEF RunTool, streamVars, approvalVars
<1>10. CASE EmitLens
  <2>1. calls # <<>> BY <1>10 DEF EmitLens
  <2>2. runner' \in {"register", "ask", "wait", "tool", "announce"}
          => runner' = "register" /\ calls' # <<>>
    BY <1>10, <2>1, NextCallLeft DEF EmitLens, Return
  <2> QED BY <1>10, <2>2 DEF EmitLens, OtherThanEvents, approvalVars
<1>11. CASE EmitError
  BY <1>11 DEF EmitError, EmitLast, Return, OtherThanEvents, approvalVars
<1>12. CASE EmitCompleted
  BY <1>12 DEF EmitCompleted, EmitLast, Return, OtherThanEvents, approvalVars
<1>13. CASE HandleMessage
  \* The message just read comes after every message a write has used.
  <2>1. read' = read + 1 /\ slot' \in {slot, read + 1} /\ UNCHANGED msgs
    BY <1>13 DEF HandleMessage, approvalVars
  <2>2. \A w \in writes : w.by <= read BY DEF GateHolds
  <2>3. \A w \in writes : w.by \in Nat
    <3> TAKE w \in writes
    <3>1. w \in Writes OBVIOUS
    <3> QED BY <3>1 DEF Writes
  <2>4. UNCHANGED <<runner, calls, grant, writes, events, delivered, host>>
    BY <1>13 DEF HandleMessage, runnerVars
  <2>5. slot' \in Nat \ {Empty} => slot' <= read' /\ \A w \in writes : w.by < slot'
    BY <2>1, <2>2, <2>3
  <2>6. runner = "tool" => grant <= read' BY <2>1
  <2> QED BY <2>1, <2>4, <2>5, <2>6
<1>14. CASE ReadEnd
  BY <1>14 DEF ReadEnd, streamVars, runnerVars, approvalVars
<1>15. CASE ReadError
  BY <1>15 DEF ReadError, streamVars, runnerVars
<1>16. CASE DropReceiver
  BY <1>16 DEF DropReceiver, streamVars, runnerVars, approvalVars
<1>17. CASE TransmitEvent
  BY <1>17 DEF TransmitEvent, Transmit, runnerVars, approvalVars
<1>18. CASE EndResponse
  BY <1>18 DEF EndResponse, runnerVars, approvalVars
<1>19. CASE HostStep
  \* The log only grows: what a position holds stays there.
  <2>1. /\ UNCHANGED <<runnerVars, approvalVars, read>> /\ AnswersAnEvent'
        /\ \A k \in 1..Len(msgs) : k \in 1..Len(msgs') /\ msgs'[k] = msgs[k]
    BY <1>19, HostMoves DEF HostStep
  <2> QED BY <2>1 DEF runnerVars, approvalVars
<1>20. CASE UNCHANGED vars
  BY <1>20 DEF vars, streamVars, runnerVars, approvalVars
<1> QED
  BY <1>1, <1>2, <1>3, <1>4, <1>5, <1>6, <1>7, <1>8, <1>9, <1>10, <1>11, <1>12,
     <1>13, <1>14, <1>15, <1>16, <1>17, <1>18, <1>19, <1>20, NextCases

(* Every step keeps map, oneshot and runner in agreement: the reader touches *)
(* them only through the one id in the map, and the runner leaves the wait   *)
(* only with the map empty.                                                  *)
LEMMA DecisionsStep ==
  ASSUME IInv, [Next]_vars
  PROVE  DecisionsMatch'
<1> USE DEF IInv, TypeOK, DecisionsMatch, Empty, Dropped, Call
<1>1. CASE InteractRejects
  BY <1>1 DEF InteractRejects, runnerVars, approvalVars
<1>2. CASE InteractAccepts
  BY <1>2 DEF InteractAccepts, approvalVars
<1>3. CASE EmitStarted
  BY <1>3 DEF EmitStarted, EmitThen, Return, OtherThanEvents, approvalVars
<1>4. CASE EmitText
  BY <1>4 DEF EmitText, EmitThen, Return, OtherThanEvents, approvalVars
<1>5. CASE ModelEnds
  BY <1>5 DEF ModelEnds, streamVars, approvalVars
<1>6. CASE Register
  BY <1>6 DEF Register, streamVars
<1>7. CASE EmitRequest
  <2>1. CASE receiver
    BY <1>7, <2>1 DEF EmitRequest, EmitThen, EmitErr, OtherThanEvents, approvalVars
  <2>2. CASE ~receiver
    BY <1>7, <2>2 DEF EmitRequest, EmitThen, EmitOk, Return, OtherThanEvents
  <2> QED BY <2>1, <2>2
<1>8. CASE TakeDecision
  <2>1. pending = {} BY <1>8 DEF TakeDecision
  <2>2. runner' \in {"done", "tool", "register", "streaming"}
    BY <1>8 DEF TakeDecision, NextCall, Return
  <2> QED BY <1>8, <2>1, <2>2 DEF TakeDecision
<1>9. CASE RunTool
  BY <1>9 DEF RunTool, streamVars, approvalVars
<1>10. CASE EmitLens
  BY <1>10 DEF EmitLens, NextCall, Return, OtherThanEvents, approvalVars
<1>11. CASE EmitError
  BY <1>11 DEF EmitError, EmitLast, Return, OtherThanEvents, approvalVars
<1>12. CASE EmitCompleted
  BY <1>12 DEF EmitCompleted, EmitLast, Return, OtherThanEvents, approvalVars
<1>13. CASE HandleMessage
  <2>1. read \in Nat BY DEF StreamTypeOK
  <2>2. CASE msgs[read + 1].kind # "prompt" /\ msgs[read + 1].id \in pending
    BY <1>13, <2>1, <2>2 DEF HandleMessage, runnerVars
  <2>3. CASE UNCHANGED approvalVars
    BY <1>13, <2>3 DEF HandleMessage, runnerVars, approvalVars
  <2> QED BY <1>13, <2>2, <2>3 DEF HandleMessage
<1>14. CASE ReadEnd
  BY <1>14 DEF ReadEnd, streamVars, runnerVars, approvalVars
<1>15. CASE ReadError
  <2>1. UNCHANGED <<runner, calls, msgs>> /\ pending' = {}
    BY <1>15 DEF ReadError, streamVars, runnerVars
  <2>2. CASE pending = {}
    <3>1. slot' = slot BY <1>15, <2>2 DEF ReadError
    <3>2. runner \in {"ask", "wait"} => slot # Empty BY <2>2
    <3> QED BY <2>1, <2>2, <3>1, <3>2
  <2>3. CASE pending # {}
    <3>1. slot' = Dropped BY <1>15, <2>3 DEF ReadError
    <3>2. runner \in {"ask", "wait"} BY <2>3
    <3> QED BY <2>1, <3>1, <3>2
  <2> QED BY <2>2, <2>3
<1>16. CASE DropReceiver
  BY <1>16 DEF DropReceiver, streamVars, runnerVars, approvalVars
<1>17. CASE TransmitEvent
  BY <1>17 DEF TransmitEvent, Transmit, runnerVars, approvalVars
<1>18. CASE EndResponse
  BY <1>18 DEF EndResponse, runnerVars, approvalVars
<1>19. CASE HostStep
  <2>1. UNCHANGED <<runner, calls, pending, slot>>
    BY <1>19 DEF HostStep, runnerVars, approvalVars
  <2>2. \A k \in 1..Len(msgs) : msgs'[k] = msgs[k]
    BY <1>19, HostMoves DEF HostStep, Positions
  <2>3. slot \in Nat \ {Empty} => slot \in 1..Len(msgs)
    BY DEF Positions, StreamTypeOK
  <2> QED BY <2>1, <2>2, <2>3
<1>20. CASE UNCHANGED vars
  BY <1>20 DEF vars, streamVars, runnerVars, approvalVars
<1> QED
  BY <1>1, <1>2, <1>3, <1>4, <1>5, <1>6, <1>7, <1>8, <1>9, <1>10, <1>11, <1>12,
     <1>13, <1>14, <1>15, <1>16, <1>17, <1>18, <1>19, <1>20, NextCases

-----------------------------------------------------------------------------
(* Only RunTool writes. *)
LEMMA WritesOnlyInRunTool ==
  ASSUME [Next]_vars, ~RunTool
  PROVE  UNCHANGED writes
BY NextCases DEF InteractRejects, InteractAccepts, EmitStarted, EmitText, ModelEnds,
   Register, EmitRequest, TakeDecision, EmitLens, EmitError, EmitCompleted,
   HandleMessage, ReadEnd, ReadError, DropReceiver, TransmitEvent, EndResponse,
   HostStep, vars, runnerVars

(* The request stream only grows, and what was read stays read. *)
LEMMA LogGrows ==
  ASSUME TypeOK, Positions, [Next]_vars
  PROVE  /\ read <= read'
         /\ \A k \in 1..Len(msgs) : k \in 1..Len(msgs') /\ msgs'[k] = msgs[k]
<1> USE DEF TypeOK, StreamTypeOK
<1>1. CASE HostStep
  BY <1>1, HostMoves DEF HostStep, Positions
<1>2. CASE ~HostStep
  <2>1. UNCHANGED msgs /\ read' \in {read, read + 1}
    BY <1>2, NextCases DEF InteractRejects, InteractAccepts, EmitStarted, EmitText,
       ModelEnds, Register, EmitRequest, TakeDecision, RunTool, EmitLens, EmitError,
       EmitCompleted, HandleMessage, ReadEnd, ReadError, DropReceiver, TransmitEvent,
       Transmit, EndResponse, OtherThanEvents, vars, streamVars
  <2> QED BY <2>1
<1> QED BY <1>1, <1>2

(* Every step keeps the gate. *)
LEMMA GateStep ==
  ASSUME IInv, [Next]_vars
  PROVE  GateHolds'
<1>1. \A w \in writes : w.by <= read' /\ Approves(msgs', w.by, w.id)
  <2> TAKE w \in writes
  <2>1. w.by \in Nat /\ w.by <= read /\ Approves(msgs, w.by, w.id)
    <3>1. w \in Writes BY DEF IInv, TypeOK
    <3> QED BY <3>1 DEF IInv, GateHolds, Writes
  <2>2. /\ read <= read'
        /\ \A k \in 1..Len(msgs) : k \in 1..Len(msgs') /\ msgs'[k] = msgs[k]
    <3>1. TypeOK /\ Positions BY DEF IInv
    <3> QED BY <3>1, LogGrows
  <2>3. read \in Nat /\ read' \in Nat
    <3>1. TypeOK /\ TypeOK' BY TypeStep DEF IInv
    <3> QED BY <3>1 DEF TypeOK, StreamTypeOK
  <2> QED BY <2>1, <2>2, <2>3 DEF Approves
<1>2. CASE RunTool
  \* A new write uses the tool's grant, which comes after all the used ones.
  <2>1. /\ grant \in Nat /\ grant <= read /\ Approves(msgs, grant, Call)
        /\ \A w \in writes : w.by < grant
    BY <1>2 DEF RunTool, IInv, TypeOK, Positions
  <2>2. UNCHANGED <<read, msgs>> BY <1>2 DEF RunTool, streamVars
  <2>3. \A w \in writes : w.by \in Nat
    <3> TAKE w \in writes
    <3>1. w \in Writes BY DEF IInv, TypeOK
    <3> QED BY <3>1 DEF Writes
  <2>4. ASSUME NEW whole \in BOOLEAN, writes' = writes \cup {Write(Call, grant, 0, whole)}
        PROVE  GateHolds'
    <3>1. Write(Call, grant, 0, whole).by = grant /\ Write(Call, grant, 0, whole).id = Call
      BY DEF Write
    <3>2. \A w \in writes' : w.by <= read' /\ Approves(msgs', w.by, w.id)
      BY <1>1, <2>1, <2>2, <2>4, <3>1
    <3>3. \A v, w \in writes' : v.by = w.by => v = w
      BY <2>1, <2>3, <2>4, <3>1 DEF IInv, GateHolds
    <3> QED BY <3>2, <3>3 DEF GateHolds
  <2>5. CASE UNCHANGED writes
    BY <1>1, <2>5 DEF IInv, GateHolds
  <2> QED BY <1>2, <2>4, <2>5 DEF RunTool
<1>3. CASE ~RunTool
  <2>1. UNCHANGED writes BY <1>3, WritesOnlyInRunTool
  <2> QED BY <1>1, <2>1 DEF IInv, GateHolds
<1> QED BY <1>2, <1>3

-----------------------------------------------------------------------------
(* The invariant holds at first. *)
LEMMA InitInvariant == Init => IInv
  BY NoCallAssumption, StreamAssumption, RustAssumption
     DEF Init, StreamInit, IInv, TypeOK, StreamTypeOK, Positions, DecisionsMatch,
         AnswersAnEvent, GateHolds, Empty, Dropped

(* ... and always. *)
THEOREM Invariance == Spec => []IInv
<1>1. ASSUME IInv, [Next]_vars PROVE IInv'
  <2>1. TypeOK' BY <1>1, TypeStep DEF IInv
  <2>2. Positions' BY <1>1, PositionsStep
  <2>3. DecisionsMatch' BY <1>1, DecisionsStep
  <2>4. GateHolds' BY <1>1, GateStep
  <2> QED BY <2>1, <2>2, <2>3, <2>4 DEF IInv
<1> QED BY InitInvariant, <1>1, PTL DEF Spec

(* In every execution of a call, every variable keeps its type. *)
THEOREM TypeCorrect == Spec => []TypeOK
<1>1. IInv => TypeOK BY DEF IInv
<1> QED BY <1>1, Invariance, PTL

(* The answers of the host, read by another task than the one that asked,    *)
(* always reach the very call they name, or none.                            *)
THEOREM DecisionsAlwaysMatch == Spec => []DecisionsMatch
<1>1. IInv => DecisionsMatch BY DEF IInv
<1> QED BY <1>1, Invariance, PTL

(* Whatever the host sends and however the tasks interleave, every lens      *)
(* write of the Rust sidecar has an approval of its own.                     *)
THEOREM GateAlwaysHolds == Spec => []GateHolds
<1>1. IInv => GateHolds BY DEF IInv
<1> QED BY <1>1, Invariance, PTL
-----------------------------------------------------------------------------
(***************************************************************************)
(* What makes EndsWithTerminal inductive: run_agent leaves without a       *)
(* terminal event only where it has noticed that the client is gone, and   *)
(* both ways of noticing it (emit fails, the oneshot is dropped) tell the  *)
(* truth.                                                                  *)
(***************************************************************************)
Ending ==
  /\ ~receiver => link # "up"
  /\ slot = Dropped => link # "up"
  /\ runner = "done" /\ link = "up" =>
       events # <<>> /\ events[Len(events)].kind \in Terminal
  /\ response = "ended" => runner = "done"

(* A connection that is gone does not come back. *)
LEMMA LinkStaysDown ==
  ASSUME TypeOK, [Next]_vars
  PROVE  link' = "up" => link = "up"
<1>1. CASE HostStep
  BY <1>1 DEF HostStep, HostNext, HostOpens, HostReceives, HostAnswers, HostSeesEnd,
     HostCancels, LinkFails, RogueSends, DropStream
<1>2. CASE ~HostStep
  BY <1>2, NextCases DEF InteractRejects, InteractAccepts, EmitStarted, EmitText,
     ModelEnds, Register, EmitRequest, TakeDecision, RunTool, EmitLens, EmitError,
     EmitCompleted, HandleMessage, ReadEnd, ReadError, DropReceiver, TransmitEvent,
     Transmit, EndResponse, OtherThanEvents, vars, streamVars
<1> QED BY <1>1, <1>2

(* The last event run_agent emits is a terminal one. *)
LEMMA LastIsTerminal ==
  ASSUME TypeOK, Ending, NEW kind \in Terminal, EmitLast(Signal(kind)), link = "up"
  PROVE  events' # <<>> /\ events'[Len(events')].kind \in Terminal
<1>1. events' = Append(events, Signal(kind)) BY DEF EmitLast, EmitOk, EmitErr, Ending
<1>2. events \in Seq(AgentEvent) BY DEF TypeOK, StreamTypeOK
<1>3. Signal(kind).kind = kind BY DEF Signal, Event
<1> DEFINE e == Signal(kind)
<1>4. Append(events, e) # <<>> /\ Append(events, e)[Len(Append(events, e))] = e
  <2> HIDE DEF e
  <2> QED BY <1>2
<1> QED BY <1>1, <1>3, <1>4

(* Every step keeps it. *)
LEMMA EndingStep ==
  ASSUME IInv, Ending, [Next]_vars
  PROVE  Ending'
<1>l. link' = "up" => link = "up" BY LinkStaysDown DEF IInv
<1> USE <1>l DEF Ending
<1>1. CASE InteractRejects
  BY <1>1 DEF InteractRejects, runnerVars, approvalVars
<1>2. CASE InteractAccepts
  BY <1>2 DEF InteractAccepts, approvalVars
<1>3. CASE EmitStarted \/ EmitText
  <2>1. UNCHANGED <<response, receiver, slot, link>> /\ runner # "done"
    BY <1>3 DEF EmitStarted, EmitText, OtherThanEvents, approvalVars
  <2>2. runner' = "done" => ~receiver
    BY <1>3 DEF EmitStarted, EmitText, EmitThen, EmitErr
  <2> QED BY <2>1, <2>2
<1>4. CASE ModelEnds \/ Register \/ RunTool
  <2>1. UNCHANGED <<response, receiver, link>> /\ runner # "done" /\ runner' # "done"
    BY <1>4 DEF ModelEnds, Register, RunTool, streamVars
  <2>2. slot' = slot \/ slot' = Empty
    BY <1>4, Zenon DEF ModelEnds, Register, RunTool, approvalVars
  <2>3. Empty # Dropped BY DEF Empty, Dropped
  <2> QED BY <2>1, <2>2, <2>3
<1>5. CASE EmitRequest
  <2>1. UNCHANGED <<response, receiver, link>> /\ runner # "done"
    BY <1>5 DEF EmitRequest, OtherThanEvents
  <2>2. slot' # Dropped \/ slot' = slot
    BY <1>5 DEF EmitRequest, approvalVars, Empty, Dropped
  <2>3. runner' = "done" => ~receiver BY <1>5 DEF EmitRequest, EmitThen, EmitErr
  <2> QED BY <2>1, <2>2, <2>3
<1>6. CASE TakeDecision
  <2>1. UNCHANGED <<response, receiver, link>> /\ runner # "done" /\ slot' # Dropped
    BY <1>6 DEF TakeDecision, streamVars, Empty, Dropped
  <2>2. runner' = "done" => slot = Dropped
    BY <1>6 DEF TakeDecision, NextCall
  <2> QED BY <2>1, <2>2
<1>7. CASE EmitLens
  <2>1. UNCHANGED <<response, receiver, slot, link>> /\ runner # "done"
    BY <1>7 DEF EmitLens, OtherThanEvents, approvalVars
  <2>2. runner' = "done" => ~receiver BY <1>7 DEF EmitLens, EmitErr, NextCall
  <2> QED BY <2>1, <2>2
<1>8. CASE EmitError \/ EmitCompleted
  <2>1. UNCHANGED <<response, receiver, slot, link>> /\ runner # "done"
    BY <1>8 DEF EmitError, EmitCompleted, OtherThanEvents, approvalVars
  <2>2. link = "up" => events' # <<>> /\ events'[Len(events')].kind \in Terminal
    BY <1>8, LastIsTerminal DEF IInv, EmitError, EmitCompleted, Terminal
  <2> QED BY <2>1, <2>2
<1>9. CASE HandleMessage
  <2>1. UNCHANGED <<response, receiver, link, runner, events>>
    BY <1>9 DEF HandleMessage, runnerVars
  <2>2. slot' = slot \/ slot' = read + 1
    BY <1>9 DEF HandleMessage, approvalVars
  <2>3. read + 1 # Dropped BY DEF IInv, TypeOK, StreamTypeOK, Dropped
  <2> QED BY <2>1, <2>2, <2>3
<1>10. CASE ReadEnd
  BY <1>10 DEF ReadEnd, streamVars, runnerVars, approvalVars
<1>11. CASE ReadError
  BY <1>11 DEF ReadError, streamVars, runnerVars
<1>12. CASE DropReceiver
  BY <1>12 DEF DropReceiver, streamVars, runnerVars, approvalVars
<1>13. CASE TransmitEvent
  BY <1>13 DEF TransmitEvent, Transmit, runnerVars, approvalVars
<1>14. CASE EndResponse
  BY <1>14 DEF EndResponse, runnerVars, approvalVars
<1>15. CASE HostStep
  <2>1. UNCHANGED <<response, events>>
    BY <1>15 DEF HostStep, HostNext, HostOpens, HostReceives, HostAnswers, HostSeesEnd,
       HostCancels, LinkFails, RogueSends
  <2> QED BY <1>15, <2>1 DEF HostStep, runnerVars, approvalVars
<1>16. CASE UNCHANGED vars
  BY <1>16 DEF vars, streamVars, runnerVars, approvalVars
<1> QED
  BY <1>1, <1>2, <1>3, <1>4, <1>5, <1>6, <1>7, <1>8, <1>9, <1>10, <1>11, <1>12,
     <1>13, <1>14, <1>15, <1>16, NextCases

(* Whoever the host is and whatever fails, a call of the Rust sidecar that    *)
(* is not cut off ends with status OK only after a Completed or an Error.     *)
THEOREM AlwaysEndsWithTerminal == Spec => []EndsWithTerminal
<1>1. Init => Ending
  BY DEF Init, StreamInit, Ending, Empty, Dropped
<1>2. IInv /\ Ending /\ [Next]_vars => Ending'
  BY EndingStep
<1>3. Ending => EndsWithTerminal
  BY DEF Ending, EndsWithTerminal
<1> QED BY <1>1, <1>2, <1>3, Invariance, PTL DEF Spec
-----------------------------------------------------------------------------
(***************************************************************************)
(* What makes every step of the sidecar a step of AgentTurn: how far the   *)
(* response stream is, told from where run_agent stands. A call waits for  *)
(* its approval only after its request was queued; and every LensChanged   *)
(* so far is about a write made earlier, hence under an earlier approval   *)
(* than the one the running tool holds.                                    *)
(***************************************************************************)
LensTold == \A i \in DOMAIN events :
              events[i].kind = "lens" => \E w \in writes : w.by = events[i].by

Heard ==
  /\ runner = "idle" => read = 0 /\ reader = "idle"
  /\ runner # "idle" => msgs # <<>> /\ msgs[1].kind = "prompt"

Spoken ==
  /\ runner \in {"idle", "started"} => events = <<>>
  /\ runner \notin {"idle", "started", "done"} =>
       events # <<>> /\ events[Len(events)].kind \notin Terminal
  /\ runner \in {"wait", "tool"} => Asked(Call)
  /\ runner = "announce" => Write(Call, grant, 0, TRUE) \in writes /\ NotTold(grant, 0)
  /\ LensTold

TurnInv == Heard /\ Spoken

(* Every step keeps what has been heard: read stays zero until the prompt is *)
(* taken, and the first message of the request stream stays where it is.     *)
LEMMA HeardStep ==
  ASSUME IInv, Heard, [Next]_vars
  PROVE  Heard'
<1> USE DEF IInv, TypeOK, StreamTypeOK, Heard
<1>1. CASE InteractRejects
  BY <1>1 DEF InteractRejects, runnerVars
<1>2. CASE InteractAccepts
  BY <1>2 DEF InteractAccepts
<1>3. CASE RunnerNext
  <2>1. UNCHANGED <<msgs, read>> /\ runner # "idle"
    BY <1>3 DEF RunnerNext, EmitStarted, EmitText, ModelEnds, Register, EmitRequest,
       TakeDecision, RunTool, EmitLens, EmitError, EmitCompleted, OtherThanEvents, streamVars
  <2>2. runner' # "idle"
    BY <1>3, Zenon DEF RunnerNext, EmitStarted, EmitText, ModelEnds, Register, EmitRequest,
       TakeDecision, RunTool, EmitLens, EmitError, EmitCompleted, EmitThen, EmitLast,
       Return, NextCall
  <2> QED BY <2>1, <2>2
<1>4. CASE HandleMessage
  BY <1>4 DEF HandleMessage, runnerVars
<1>5. CASE ReadEnd \/ ReadError
  BY <1>5 DEF ReadEnd, ReadError, streamVars, runnerVars
<1>6. CASE TonicNext
  BY <1>6 DEF TonicNext, DropReceiver, TransmitEvent, Transmit, EndResponse,
     streamVars, runnerVars
<1>7. CASE HostStep
  <2>1. UNCHANGED <<runner, read, reader>>
    BY <1>7 DEF HostStep, HostNext, HostOpens, HostReceives, HostAnswers,
       HostSeesEnd, HostCancels, LinkFails, RogueSends, runnerVars
  <2>2. msgs # <<>> => msgs' # <<>> /\ msgs'[1] = msgs[1]
    <3>1. CASE msgs' = msgs BY <3>1
    <3>2. ASSUME NEW m \in Message, msgs' = Append(msgs, m)
          PROVE  msgs # <<>> => msgs' # <<>> /\ msgs'[1] = msgs[1]
      BY <3>2
    <3> QED BY <1>7, <3>1, <3>2, HostAppends DEF HostStep, Positions
  <2> QED BY <2>1, <2>2
<1>8. CASE UNCHANGED vars
  BY <1>8 DEF vars, streamVars, runnerVars
<1> QED BY <1>1, <1>2, <1>3, <1>4, <1>5, <1>6, <1>7, <1>8 DEF Next, ReaderNext

(* What has been queued stays said: an event that is no LensChanged and ends *)
(* no turn adds nothing that the runner's place would contradict.            *)
LEMMA Queued ==
  ASSUME IInv, Spoken, NEW e \in AgentEvent, EmitOk(e), writes' = writes
  PROVE  /\ events' # <<>> /\ events'[Len(events')] = e
         /\ \A i \in DOMAIN events : i \in DOMAIN events' /\ events'[i] = events[i]
         /\ Len(events') \in DOMAIN events'
         /\ \A k \in Nat : e.kind # "lens" /\ NotTold(k, 0) => NotTold(k, 0)'
         /\ e.kind # "lens" => LensTold'
         /\ (\E w \in writes : w.by = e.by) => LensTold'
<1>1. events \in Seq(AgentEvent) BY DEF IInv, TypeOK, StreamTypeOK
<1>2. events' = Append(events, e) BY DEF EmitOk
<1>3. /\ events' # <<>> /\ events'[Len(events')] = e
      /\ Len(events') \in DOMAIN events'
      /\ \A i \in DOMAIN events : i \in DOMAIN events' /\ events'[i] = events[i]
      /\ \A i \in DOMAIN events' : i \in DOMAIN events \/ events'[i] = e
  BY <1>1, <1>2, OneMoreEvent
<1>4. ASSUME NEW k \in Nat, e.kind # "lens", NotTold(k, 0) PROVE NotTold(k, 0)'
  BY <1>3, <1>4 DEF NotTold
<1>5. e.kind # "lens" => LensTold'
  BY <1>3 DEF LensTold, Spoken
<1>6. (\E w \in writes : w.by = e.by) => LensTold'
  BY <1>3 DEF LensTold, Spoken
<1> QED BY <1>3, <1>4, <1>5, <1>6

(* Every step keeps the events in line with the runner. *)
LEMMA SpokenStep ==
  ASSUME IInv, TurnInv, [Next]_vars
  PROVE  Spoken'
<1> USE DEF TurnInv
<1>s. ASSUME NEW kind \in EventKinds
      PROVE  Signal(kind) \in AgentEvent /\ Signal(kind).kind = kind
  BY SignalFields
<1>c. runner \in {"register", "ask", "wait", "tool", "announce"} => Call \in CallIds
  BY DEF IInv, TypeOK, Positions, Call
\* A step that leaves events and writes alone, whatever else it does.
<1>q. ASSUME UNCHANGED <<events, writes>> PROVE LensTold'
  BY <1>q DEF LensTold, Spoken
<1>1. CASE EmitStarted \/ EmitText
  <2>1. PICK kind \in {"started", "text"} : EmitThen(Signal(kind), "streaming")
    BY <1>1 DEF EmitStarted, EmitText
  <2>2. UNCHANGED writes BY <1>1 DEF EmitStarted, EmitText
  <2>3. CASE EmitErr /\ Return
    BY <2>2, <2>3, <1>q DEF EmitErr, Return, Spoken
  <2>4. CASE EmitOk(Signal(kind)) /\ runner' = "streaming"
    <3>1. Signal(kind) \in AgentEvent /\ Signal(kind).kind = kind BY <1>s DEF EventKinds
    <3>2. events' # <<>> /\ events'[Len(events')].kind = kind /\ LensTold'
      BY <2>2, <2>4, <3>1, Queued
    <3> QED BY <2>4, <3>2 DEF Spoken, Terminal
  <2> QED BY <2>1, <2>3, <2>4 DEF EmitThen
<1>2. CASE ModelEnds \/ Register
  <2>1. /\ UNCHANGED <<events, writes>>
        /\ runner \in {"streaming", "register"}
        /\ runner' \in {"register", "complete", "fail", "ask"}
    BY <1>2 DEF ModelEnds, Register, streamVars
  <2> QED BY <2>1, <1>q DEF Spoken
<1>3. CASE EmitRequest
  <2> DEFINE e == Request(Call)
  <2>1. UNCHANGED <<writes, calls, grant>> /\ runner = "ask" /\ EmitThen(e, "wait")
    BY <1>3 DEF EmitRequest
  <2>2. CASE EmitErr /\ Return
    BY <2>1, <2>2, <1>q DEF EmitErr, Return, Spoken
  <2>3. CASE EmitOk(e) /\ runner' = "wait"
    <3>1. e \in AgentEvent /\ e.kind = "request" /\ e.id = Call
      BY <1>c, <2>1, RequestFields
    <3>2. /\ events' # <<>> /\ events'[Len(events')].kind = "request"
          /\ Len(events') \in DOMAIN events' /\ events'[Len(events')].id = Call
          /\ LensTold'
      <4> HIDE DEF e
      <4> QED BY <2>1, <2>3, <3>1, Queued
    <3>3. Asked(Call)' BY <2>1, <3>2 DEF Asked, Call
    <3> QED BY <2>3, <3>2, <3>3 DEF Spoken, Terminal
  <2> QED BY <2>1, <2>2, <2>3 DEF EmitThen
<1>4. CASE TakeDecision
  <2>1. /\ UNCHANGED <<events, writes>> /\ runner = "wait"
        /\ runner' = "tool" => UNCHANGED calls
        /\ runner' \in {"done", "tool", "streaming", "register"}
    BY <1>4 DEF TakeDecision, NextCall, Return, streamVars
  <2>2. runner' = "tool" => Asked(Call)'
    BY <2>1 DEF Asked, Call, Spoken
  <2> QED BY <2>1, <2>2, <1>q DEF Spoken
<1>5. CASE RunTool
  <2>1. /\ UNCHANGED <<events, calls, grant>> /\ runner = "tool"
        /\ runner' \in {"fail", "announce"} /\ writes \subseteq writes'
        /\ runner' = "announce" => Write(Call, grant, 0, TRUE) \in writes'
    BY <1>5, Zenon DEF RunTool, streamVars
  <2>2. LensTold' BY <2>1 DEF LensTold, Spoken
  <2>3. NotTold(grant, 0)'
    \* What was announced was written under an earlier approval.
    <3>1. grant \in Nat /\ \A w \in writes : w.by # grant
      <4>1. \A w \in writes : w.by < grant BY <2>1 DEF IInv, Positions
      <4>2. grant \in Nat /\ \A w \in writes : w.by \in Nat
        BY DEF IInv, TypeOK, Writes
      <4> QED BY <4>1, <4>2
    <3> QED BY <2>1, <3>1 DEF NotTold, LensTold, Spoken
  <2> QED BY <2>1, <2>2, <2>3 DEF Spoken, Call
<1>6. CASE EmitLens
  <2> DEFINE e == Lens(Call, grant, 0)
  <2>1. UNCHANGED writes /\ runner = "announce"
    BY <1>6 DEF EmitLens
  <2>2. CASE EmitErr /\ Return
    BY <2>1, <2>2, <1>q DEF EmitErr, Return, Spoken
  <2>3. CASE EmitOk(e) /\ NextCall
    <3>1. e \in AgentEvent /\ e.kind = "lens" /\ e.by = grant
      BY <1>c, <2>1, LensFields DEF IInv, TypeOK
    <3>2. \E w \in writes : w.by = e.by
      BY <2>1, <3>1 DEF Spoken, Write
    <3>3. events' # <<>> /\ events'[Len(events')].kind = "lens" /\ LensTold'
      <4> HIDE DEF e
      <4> QED BY <2>1, <2>3, <3>1, <3>2, Queued
    <3>4. runner' \in {"streaming", "register"} BY <2>3 DEF NextCall
    <3> QED BY <3>3, <3>4 DEF Spoken, Terminal
  <2> QED BY <1>6, <2>2, <2>3 DEF EmitLens
<1>7. CASE EmitError \/ EmitCompleted
  <2>1. PICK kind \in {"error", "completed"} : EmitLast(Signal(kind))
    BY <1>7 DEF EmitError, EmitCompleted
  <2>2. UNCHANGED writes /\ runner' = "done"
    BY <1>7 DEF EmitError, EmitCompleted, EmitLast, Return
  <2>3. CASE EmitErr
    BY <2>2, <2>3, <1>q DEF EmitErr, Spoken
  <2>4. CASE EmitOk(Signal(kind))
    <3>1. Signal(kind) \in AgentEvent /\ Signal(kind).kind # "lens" BY <1>s DEF EventKinds
    <3> QED BY <2>2, <2>4, <3>1, Queued DEF Spoken
  <2> QED BY <2>1, <2>3, <2>4 DEF EmitLast
<1>8. CASE InteractAccepts
  <2>1. UNCHANGED <<events, writes>> /\ runner = "idle" /\ runner' = "started"
    BY <1>8 DEF InteractAccepts
  <2> QED BY <2>1, <1>q DEF Spoken
<1>9. CASE \/ InteractRejects \/ HandleMessage \/ ReadEnd \/ ReadError \/ DropReceiver
           \/ TransmitEvent \/ EndResponse \/ HostStep \/ UNCHANGED vars
  <2>1. UNCHANGED <<events, writes, runner, calls, grant>>
    BY <1>9 DEF InteractRejects, HandleMessage, ReadEnd, ReadError, DropReceiver,
       TransmitEvent, Transmit, EndResponse, HostStep, HostNext, HostOpens, HostReceives,
       HostAnswers, HostSeesEnd, HostCancels, LinkFails, RogueSends, streamVars,
       runnerVars, vars
  <2> QED BY <2>1 DEF Spoken, Asked, NotTold, LensTold, Call
<1> QED
  BY <1>1, <1>2, <1>3, <1>4, <1>5, <1>6, <1>7, <1>8, <1>9, NextCases

(* A successful emit is a step of the turn that queues the same event. *)
LEMMA EmitQueues ==
  ASSUME NEW e, EmitOk(e), UNCHANGED <<msgs, writes>>
  PROVE  Turn!Queue(e)
BY DEF EmitOk, Turn!Queue

(* Every step of the sidecar is a step of the turn or changes nothing of it. *)
LEMMA TurnStep ==
  ASSUME IInv, TurnInv, [Next]_vars
  PROVE  [Turn!Next]_(Turn!turnVars)
<1> USE DEF TurnInv
<1>c. /\ runner \in {"register", "ask", "wait", "tool", "announce"} => Call \in CallIds
      /\ grant \in Nat
  BY DEF IInv, TypeOK, Positions, Call
<1>o. runner \notin {"idle", "started", "done"} => Turn!Begun /\ ~Turn!Over
  BY DEF Spoken, Turn!Begun, Turn!Over, Terminal, Turn!Terminal
<1>u. ASSUME UNCHANGED <<msgs, events, writes>> PROVE UNCHANGED Turn!turnVars
  BY <1>u DEF Turn!turnVars
<1>1. CASE EmitStarted
  <2>1. UNCHANGED <<msgs, writes>> /\ runner = "started"
        /\ (EmitErr \/ EmitOk(Signal("started")))
    BY <1>1 DEF EmitStarted, EmitThen, OtherThanEvents
  <2>2. CASE EmitErr BY <2>1, <2>2, <1>u DEF EmitErr
  <2>3. CASE EmitOk(Signal("started"))
    <3>1. Turn!Queue(Signal("started")) BY <2>1, <2>3, EmitQueues
    <3>2. Turn!Start
      BY <2>1, <3>1 DEF Turn!Start, Turn!Begun, Heard, Spoken, Signal, Event,
         Turn!Signal, Turn!Event
    <3> QED BY <3>2 DEF Turn!Next
  <2> QED BY <2>1, <2>2, <2>3
<1>2. CASE EmitText
  <2>1. UNCHANGED <<msgs, writes>> /\ runner = "streaming"
        /\ (EmitErr \/ EmitOk(Signal("text")))
    BY <1>2 DEF EmitText, EmitThen, OtherThanEvents
  <2>2. CASE EmitErr BY <2>1, <2>2, <1>u DEF EmitErr
  <2>3. CASE EmitOk(Signal("text"))
    <3>1. Turn!Queue(Signal("text")) BY <2>1, <2>3, EmitQueues
    <3>2. Turn!Say
      BY <2>1, <3>1, <1>o DEF Turn!Say, Signal, Event, Turn!Signal, Turn!Event
    <3> QED BY <3>2 DEF Turn!Next
  <2> QED BY <2>1, <2>2, <2>3
<1>3. CASE EmitRequest
  <2>1. UNCHANGED <<msgs, writes>> /\ runner = "ask"
        /\ (EmitErr \/ EmitOk(Request(Call)))
    BY <1>3 DEF EmitRequest, EmitThen, OtherThanEvents
  <2>2. CASE EmitErr BY <2>1, <2>2, <1>u DEF EmitErr
  <2>3. CASE EmitOk(Request(Call))
    <3>1. Turn!Queue(Request(Call)) BY <2>1, <2>3, EmitQueues
    <3>2. Turn!Ask(Call)
      BY <2>1, <3>1, <1>o DEF Turn!Ask, Request, Event, Turn!Request,
         Turn!Event
    <3> QED BY <2>1, <3>2, <1>c DEF Turn!Next
  <2> QED BY <2>1, <2>2, <2>3
<1>4. CASE RunTool
  <2>1. /\ UNCHANGED <<msgs, events>> /\ runner = "tool"
        /\ \/ UNCHANGED writes
           \/ \E whole \in BOOLEAN : writes' = writes \cup {Write(Call, grant, 0, whole)}
    BY <1>4, Zenon DEF RunTool, streamVars
  <2>2. CASE UNCHANGED writes BY <2>1, <2>2, <1>u
  <2>3. CASE \E whole \in BOOLEAN : writes' = writes \cup {Write(Call, grant, 0, whole)}
    <3>1. Approves(msgs, grant, Call) /\ \A w \in writes : w.by < grant
      BY <2>1 DEF IInv, Positions
    <3>2. \A w \in writes : w.by # grant
      <4>1. \A w \in writes : w.by \in Nat BY DEF IInv, TypeOK, Writes
      <4> QED BY <3>1, <4>1, <1>c
    <3>3. \E i \in Turn!EventsOf("request") : events[i].id = Call
      BY <2>1 DEF Spoken, Asked, Turn!EventsOf
    <3>4. Turn!Approves(msgs, grant, Call) /\ grant \in 1..Len(msgs)
      BY <3>1 DEF Approves, Turn!Approves
    <3>5. \E whole \in BOOLEAN : writes' = writes \cup {Turn!Write(Call, grant, 0, whole)}
      BY <2>3 DEF Write, Turn!Write
    <3>6. Turn!WriteLens(Call, grant, 0)
      BY <2>1, <3>2, <3>3, <3>4, <3>5 DEF Turn!WriteLens
    <3> QED BY <2>1, <3>4, <3>6, <1>c DEF Turn!Next
  <2> QED BY <2>1, <2>2, <2>3
<1>5. CASE EmitLens
  <2>1. UNCHANGED <<msgs, writes>> /\ runner = "announce"
        /\ (EmitErr \/ EmitOk(Lens(Call, grant, 0)))
    BY <1>5 DEF EmitLens, OtherThanEvents
  <2>2. CASE EmitErr BY <2>1, <2>2, <1>u DEF EmitErr
  <2>3. CASE EmitOk(Lens(Call, grant, 0))
    <3>1. Turn!Queue(Lens(Call, grant, 0)) BY <2>1, <2>3, EmitQueues
    <3>2. Write(Call, grant, 0, TRUE) \in writes /\ NotTold(grant, 0)
      BY <2>1 DEF Spoken
    <3>3. grant \in 1..Len(msgs)
      <4>1. Approves(msgs, Write(Call, grant, 0, TRUE).by, Write(Call, grant, 0, TRUE).id)
        BY <3>2 DEF IInv, GateHolds
      <4> QED BY <4>1 DEF Approves, Write
    <3>4. Turn!Announce(Call, grant, 0)
      BY <2>1, <3>1, <3>2, <1>o DEF Turn!Announce, Turn!EventsOf, NotTold, Write,
         Turn!Write, Lens, Event, Turn!Lens, Turn!Event
    <3> QED BY <2>1, <3>3, <3>4, <1>c DEF Turn!Next
  <2> QED BY <2>1, <2>2, <2>3
<1>6. CASE EmitError \/ EmitCompleted
  <2>1. PICK kind \in Terminal : EmitLast(Signal(kind))
    BY <1>6 DEF EmitError, EmitCompleted, Terminal
  <2>2. UNCHANGED <<msgs, writes>> /\ runner \in {"fail", "complete"}
    BY <1>6 DEF EmitError, EmitCompleted, OtherThanEvents
  <2>3. CASE EmitErr BY <2>2, <2>3, <1>u DEF EmitErr
  <2>4. CASE EmitOk(Signal(kind))
    <3>1. Turn!Queue(Signal(kind)) BY <2>2, <2>4, EmitQueues
    <3>2. Turn!End
      BY <2>2, <3>1, <1>o DEF Turn!End, Terminal, Turn!Terminal, Signal, Event,
         Turn!Signal, Turn!Event
    <3> QED BY <3>2 DEF Turn!Next
  <2> QED BY <2>1, <2>3, <2>4 DEF EmitLast
<1>7. CASE HostStep
  <2>1. UNCHANGED <<events, writes>>
    BY <1>7 DEF HostStep, HostNext, HostOpens, HostReceives, HostAnswers, HostSeesEnd,
       HostCancels, LinkFails, RogueSends, runnerVars
  <2>2. CASE msgs' = msgs BY <2>1, <2>2, <1>u
  <2>3. CASE \E m \in Message : msgs' = Append(msgs, m)
    <3>1. Turn!Hear BY <2>1, <2>3 DEF Turn!Hear, Message, Turn!Message
    <3> QED BY <3>1 DEF Turn!Next
  <2> QED BY <1>7, <2>2, <2>3, HostAppends DEF HostStep, IInv, TypeOK, Positions
<1>8. CASE \/ InteractRejects \/ InteractAccepts \/ ModelEnds \/ Register \/ TakeDecision
           \/ HandleMessage \/ ReadEnd \/ ReadError \/ DropReceiver \/ TransmitEvent
           \/ EndResponse \/ UNCHANGED vars
  <2>1. UNCHANGED <<msgs, events, writes>>
    BY <1>8 DEF InteractRejects, InteractAccepts, ModelEnds, Register, TakeDecision,
       HandleMessage, ReadEnd, ReadError, DropReceiver, TransmitEvent, Transmit,
       EndResponse, streamVars, runnerVars, vars
  <2> QED BY <2>1, <1>u
<1> QED
  BY <1>1, <1>2, <1>3, <1>4, <1>5, <1>6, <1>7, <1>8, NextCases

(* The Rust sidecar keeps the contract of AgentTurn, for any host, any calls *)
(* and any capacity of its channel: its events follow the grammar of a turn, *)
(* it writes only what was asked for and approved, each approval once, and   *)
(* announces each complete write at most once and nothing else.              *)
THEOREM ImplementsAgentTurn == Spec => TurnHolds
<1>1. Init => TurnInv
  BY DEF Init, StreamInit, TurnInv, Heard, Spoken, LensTold
<1>2. IInv /\ TurnInv /\ [Next]_vars => TurnInv'
  BY HeardStep, SpokenStep DEF TurnInv
<1>3. Init => Turn!Init
  BY DEF Init, StreamInit, Turn!Init
<1>4. IInv /\ TurnInv /\ [Next]_vars => [Turn!Next]_(Turn!turnVars)
  BY TurnStep
<1> QED BY <1>1, <1>2, <1>3, <1>4, Invariance, PTL DEF Spec, TurnHolds, Turn!Spec
=============================================================================
