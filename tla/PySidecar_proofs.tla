-------------------------- MODULE PySidecar_proofs --------------------------
(***************************************************************************)
(* Proofs about PySidecar, for every set of calls, host, batch and bound:  *)
(* its type invariant, the approval gate, that a call not cut off ends     *)
(* with a terminal event, that a closed bridge stays closed, and that the  *)
(* sidecar implements AgentTurn.                                           *)
(***************************************************************************)
EXTENDS PySidecar, InteractStream_proofs

(* The calls on their way to the disk: approved, with a thread, or back.     *)
UnderWay == tools \cup writing \cup written

(* The decision that the call at place i has. *)
By(i) == decisions[calls[i]]

(* The future holds the position of a decision. *)
Resolved == slot \notin {Empty, Failed}

(***************************************************************************)
(* The bridge and the runner agree: the map holds the one call the runner  *)
(* awaits, its future was resolved by a message that names this call, and  *)
(* once the bridge is closed no future is left unresolved.                 *)
(***************************************************************************)
WaitInv ==
  /\ runner \in {"ask", "wait"} => place \in DOMAIN calls
  /\ pending = IF runner = "wait" THEN {Call} ELSE {}
  /\ slot # Empty => runner = "wait"
  /\ Resolved => slot \in 1..read /\ msgs[slot].id = Call
  /\ closed /\ runner = "wait" => slot # Empty

(***************************************************************************)
(* What makes the gate inductive. The calls of a round share an id only if *)
(* rounds may, and an id has a decision there only from a message that     *)
(* names it.                                                               *)
(***************************************************************************)
RoundInv ==
  /\ DOMAIN calls \subseteq Places
  /\ \A i, j \in DOMAIN calls : i # j /\ calls[i] = calls[j] => calls[i] \in Repeated
  /\ \A id \in CallIds : decisions[id] # 0 =>
       decisions[id] \in 1..read /\ msgs[decisions[id]].id = id

(* Every call on its way to the disk has a decision that approves it, and is *)
(* in one place at a time, although the threads come back in any order and   *)
(* outlive the runner.                                                       *)
GrantInv ==
  /\ UnderWay # {} => runner \in {"tools", "done"}
  /\ \A i \in UnderWay :
       i \in DOMAIN calls /\ By(i) <= read /\ Approves(msgs, By(i), calls[i])
  /\ tools \cap (writing \cup written) = {}
  /\ writing \cap written = {}

(* A write was made under a decision before the one that resolves a future.  *)
(* If that is a decision of the round at hand the round is past its          *)
(* decisions, and the write is for a call that will not write again.         *)
WriteInv ==
  \A w \in writes :
    /\ Resolved => w.by < slot
    /\ w.by = decisions[w.id] =>
         /\ runner \in {"tools", "done"}
         /\ w.at \in DOMAIN calls /\ calls[w.at] = w.id
         /\ w.at \notin tools \cup writing

IInv ==
  /\ TypeOK /\ AnswersAnEvent /\ WaitInv
  /\ RoundInv /\ GrantInv /\ WriteInv /\ GateHolds

(* The actions of Next, one by one: the case split of the step lemmas. *)
LEMMA NextCases ==
  ASSUME [Next]_vars
  PROVE  \/ InteractRejects \/ InteractAccepts
         \/ PumpYields \/ PumpCloses \/ PumpReturns
         \/ EmitStarted \/ EmitText \/ ModelCalls \/ EmitCompleted \/ RunFails
         \/ RequestApproval \/ TakeDecision \/ ToolsReturn \/ RunnerCancelled
         \/ (\E i \in tools : StartTool(i))
         \/ (\E i \in written : EmitLens(i))
         \/ (\E i \in writing : ThreadWrites(i))
         \/ ReadMessage \/ ReadEnd \/ ReaderCancelled
         \/ HostStep \/ UNCHANGED vars
BY DEF Next, RunnerNext, ReaderNext

(* Every step keeps the types. *)
LEMMA TypeStep ==
  ASSUME IInv, [Next]_vars
  PROVE  TypeOK'
<1>i. TypeOK /\ AnswersAnEvent /\ WaitInv /\ GrantInv BY DEF IInv
<1> USE <1>i, NoCallAssumption, StreamAssumption, PyAssumption
        DEF TypeOK, bridgeVars, roundVars, toolVars
<1>a. runner \in {"ask", "wait"} => Call \in CallIds
  BY DEF Call, WaitInv
<1>w. \A i \in writing \cup written, whole \in BOOLEAN : LensWrite(i, whole) \in Writes
  <2> SUFFICES ASSUME NEW i \in writing \cup written
               PROVE  \A whole \in BOOLEAN : LensWrite(i, whole) \in Writes
    OBVIOUS
  <2>1. i \in DOMAIN calls /\ i \in Nat BY DEF GrantInv, UnderWay
  <2>2. calls[i] \in CallIds BY <2>1
  <2>3. decisions[calls[i]] \in Nat BY <2>2
  <2> QED BY <2>1, <2>2, <2>3 DEF LensWrite, Write, Writes
\* A step that adds an event and touches nothing else of the streams.
<1>m. ASSUME NEW e \in AgentEvent, events' = Append(events, e), OtherThanEvents
      PROVE  StreamTypeOK'
  <2>1. events \in Seq(AgentEvent) BY DEF StreamTypeOK
  <2>2. events' \in Seq(AgentEvent) /\ Len(events') = Len(events) + 1
    BY <1>m, <2>1, OneMoreEvent
  <2> QED BY <1>m, <2>2 DEF OtherThanEvents, StreamTypeOK
<1>s. ASSUME NEW kind \in EventKinds, events' = Append(events, Signal(kind)), OtherThanEvents
      PROVE  StreamTypeOK'
  BY <1>s, <1>m, SignalFields
<1>u. UNCHANGED streamVars => StreamTypeOK'
  BY DEF streamVars, StreamTypeOK
<1>1. CASE InteractRejects
  BY <1>1 DEF InteractRejects, StreamTypeOK
<1>2. CASE InteractAccepts
  BY <1>2 DEF InteractAccepts, StreamTypeOK
<1>3. CASE PumpYields
  <2>1. StreamTypeOK' BY <1>3 DEF PumpYields, Transmit, StreamTypeOK
  <2> QED BY <1>3, <2>1 DEF PumpYields
<1>4. CASE PumpCloses
  BY <1>4, <1>u DEF PumpCloses
<1>5. CASE PumpReturns
  <2>1. StreamTypeOK' BY <1>5 DEF PumpReturns, StreamTypeOK
  <2> QED BY <1>5, <2>1 DEF PumpReturns
<1>6. CASE EmitStarted \/ EmitText
  <2>1. StreamTypeOK'
    BY <1>6, <1>s DEF EmitStarted, EmitText, EventKinds
  <2>2. runner' \in {"model"}
        /\ UNCHANGED <<roundVars, bridgeVars, toolVars, reader, pump>>
    BY <1>6 DEF EmitStarted, EmitText, OtherThanEvents
  <2> QED BY <2>1, <2>2
<1>7. CASE ModelCalls
  <2>1. calls' \in Seq(CallIds) BY <1>7 DEF ModelCalls
  <2>2. made' \in 0..MaxCalls
    <3>1. Len(calls') \in Nat BY <2>1
    <3> QED BY <1>7, <3>1 DEF ModelCalls
  <2> QED BY <1>7, <2>1, <2>2, <1>u DEF ModelCalls, Undecided
<1>8. CASE EmitCompleted \/ RunFails
  <2>1. StreamTypeOK'
    BY <1>8, <1>s DEF EmitCompleted, RunFails, Raise, EventKinds
  <2>2. Finish /\ UNCHANGED <<roundVars, bridgeVars, reader, pump>>
    BY <1>8 DEF EmitCompleted, RunFails, Raise, OtherThanEvents
  <2> QED BY <2>1, <2>2 DEF Finish
<1>9. CASE RequestApproval
  <2>1. Call \in CallIds BY <1>9, <1>a DEF RequestApproval
  <2>2. OtherThanEvents /\ UNCHANGED <<roundVars, closed>>
    BY <1>9 DEF RequestApproval
  <2>3. CASE closed \/ Call \in pending
    <3>1. Raise /\ UNCHANGED <<pending, slot>> BY <1>9, <2>3 DEF RequestApproval
    <3>2. StreamTypeOK' BY <2>2, <3>1, <1>s DEF Raise, EventKinds
    <3> QED BY <2>2, <3>1, <3>2 DEF Raise, Finish, OtherThanEvents
  <2>4. CASE ~(closed \/ Call \in pending)
    <3>1. /\ pending' = pending \cup {Call} /\ slot' = Empty
          /\ events' = Append(events, Request(Call))
          /\ runner' = "wait" /\ UNCHANGED toolVars
      BY <1>9, <2>4 DEF RequestApproval
    <3>2. Request(Call) \in AgentEvent BY <2>1, RequestFields
    <3>3. StreamTypeOK' BY <2>2, <3>1, <3>2, <1>m
    <3> QED BY <2>1, <2>2, <3>1, <3>3 DEF OtherThanEvents, Empty
  <2> QED BY <2>3, <2>4
<1>10. CASE TakeDecision
  <2>1. Call \in CallIds BY <1>10, <1>a DEF TakeDecision
  <2>2. /\ OtherThanEvents /\ UNCHANGED <<calls, made, closed>>
        /\ pending' = pending \ {Call} /\ slot' = Empty /\ slot # Empty
    BY <1>10 DEF TakeDecision
  <2>3. CASE slot = Failed
    <3>1. Raise /\ UNCHANGED <<place, decisions>> BY <1>10, <2>3 DEF TakeDecision
    <3>2. StreamTypeOK' BY <2>2, <3>1, <1>s DEF Raise, EventKinds
    <3> QED BY <2>2, <3>1, <3>2 DEF Raise, Finish, OtherThanEvents, Empty
  <2>4. CASE slot # Failed
    <3>1. /\ decisions' = [decisions EXCEPT ![Call] = slot] /\ place' = place + 1
          /\ runner' \in {"tools", "ask"} /\ tools' \in {tools, Approved(decisions')}
          /\ UNCHANGED <<events, writing, written, writes>>
      BY <1>10, <2>4 DEF TakeDecision
    <3>2. slot \in Nat BY <2>4
    <3>3. decisions' \in [CallIds -> Nat] BY <2>1, <3>1, <3>2
    <3>4. tools' \subseteq Nat
      <4>1. Approved(decisions') \subseteq DOMAIN calls BY DEF Approved
      <4>2. DOMAIN calls \subseteq Nat OBVIOUS
      <4> QED BY <3>1, <4>1, <4>2
    <3>5. StreamTypeOK' BY <2>2, <3>1 DEF OtherThanEvents, StreamTypeOK
    <3> QED BY <2>1, <2>2, <3>1, <3>3, <3>4, <3>5 DEF OtherThanEvents, Empty
  <2> QED BY <2>3, <2>4
<1>11. CASE ToolsReturn
  <2>1. calls' \in Seq(CallIds) /\ place' \in Nat /\ decisions' \in [CallIds -> Nat]
    BY <1>11, EmptySeq DEF ToolsReturn, Undecided
  <2> QED BY <1>11, <2>1, <1>u DEF ToolsReturn
<1>12. CASE RunnerCancelled
  BY <1>12, <1>u DEF RunnerCancelled, Finish, Empty
<1>13. ASSUME NEW i \in tools, StartTool(i) PROVE TypeOK'
  BY <1>13, <1>u DEF StartTool
<1>14. ASSUME NEW i \in written, EmitLens(i) PROVE TypeOK'
  <2> DEFINE w == LensWrite(i, TRUE)
  <2>1. Lens(w.id, w.by, w.at) \in AgentEvent
    <3>1. w \in Writes BY <1>w
    <3>2. w.id \in CallIds /\ w.by \in Nat /\ w.at \in Nat
      BY <3>1 DEF Writes
    <3> HIDE DEF w
    <3> QED BY <3>2, LensFields
  <2>2. events' = Append(events, Lens(w.id, w.by, w.at)) /\ OtherThanEvents
    BY <1>14 DEF EmitLens
  <2> HIDE DEF w
  <2>3. StreamTypeOK' BY <2>1, <2>2, <1>m
  <2> QED BY <1>14, <2>3 DEF EmitLens, OtherThanEvents
<1>15. ASSUME NEW i \in writing, ThreadWrites(i) PROVE TypeOK'
  <2>1. \E whole \in BOOLEAN : writes' \subseteq writes \cup {LensWrite(i, whole)}
    BY <1>15 DEF ThreadWrites
  <2>2. writes' \subseteq Writes /\ writing' \subseteq Nat /\ written' \subseteq Nat
    BY <1>15, <1>w, <2>1 DEF ThreadWrites
  <2> QED BY <1>15, <2>2, <1>u DEF ThreadWrites
<1>16. CASE ReadMessage
  <2>1. StreamTypeOK' BY <1>16 DEF ReadMessage, StreamTypeOK
  <2>2. /\ slot' \in Nat \cup {Failed} /\ closed' \in BOOLEAN
        /\ reader' \in {"reading", "stopped"}
    <3>1. \/ slot' = read + 1 /\ UNCHANGED <<closed, reader>>
          \/ Close /\ reader' = "stopped"
      BY <1>16, Zenon DEF ReadMessage
    <3>r. reader = "reading" BY <1>16 DEF ReadMessage
    <3>2. read + 1 \in Nat BY DEF StreamTypeOK
    <3> QED BY <3>1, <3>r, <3>2 DEF Close
  <2> QED BY <1>16, <2>1, <2>2 DEF ReadMessage
<1>17. CASE ReadEnd
  BY <1>17, <1>u DEF ReadEnd, Close
<1>18. CASE ReaderCancelled
  BY <1>18, <1>u DEF ReaderCancelled
<1>19. CASE HostStep
  <2>1. StreamTypeOK' BY <1>19, HostMoves DEF HostStep
  <2> QED BY <1>19, <2>1 DEF HostStep
<1>20. CASE UNCHANGED vars
  BY <1>20, <1>u DEF vars
<1> QED
  BY <1>1, <1>2, <1>3, <1>4, <1>5, <1>6, <1>7, <1>8, <1>9, <1>10, <1>11, <1>12,
     <1>13, <1>14, <1>15, <1>16, <1>17, <1>18, <1>19, <1>20, NextCases

-----------------------------------------------------------------------------
(* Every step keeps bridge and runner in agreement. *)
LEMMA WaitStep ==
  ASSUME IInv, [Next]_vars
  PROVE  WaitInv'
<1>t. TypeOK /\ WaitInv BY DEF IInv
<1> USE <1>t DEF WaitInv, Resolved, Call, Empty, Failed, bridgeVars, roundVars
<1>1. CASE \/ InteractRejects \/ InteractAccepts \/ PumpYields \/ PumpCloses \/ PumpReturns
           \/ ReaderCancelled \/ UNCHANGED vars
  <2>1. /\ UNCHANGED <<msgs, calls, place, pending, slot, closed>>
        /\ runner' = runner \/ (runner = "idle" /\ runner' = "starting")
        /\ read' = read \/ read' = read + 1
    BY <1>1 DEF InteractRejects, InteractAccepts, PumpYields, PumpCloses, PumpReturns,
       ReaderCancelled, Transmit, streamVars, vars
  <2> QED BY <2>1 DEF TypeOK, StreamTypeOK
<1>2. CASE EmitStarted \/ EmitText \/ EmitCompleted \/ RunFails \/ ToolsReturn
  <2>1. /\ UNCHANGED <<msgs, read, pending, slot, closed>>
        /\ runner \in {"starting", "model", "tools"} /\ runner' \in {"model", "done"}
    BY <1>2 DEF EmitStarted, EmitText, EmitCompleted, RunFails, ToolsReturn, Raise, Finish,
       OtherThanEvents, streamVars
  <2> QED BY <2>1
<1>3. CASE ModelCalls
  <2>1. calls' # <<>> /\ calls' \in Seq(CallIds) BY <1>3, PyAssumption DEF ModelCalls
  <2>2. 1 \in DOMAIN calls' BY <2>1, EmptySeq
  <2> QED BY <1>3, <2>2 DEF ModelCalls, streamVars
<1>4. CASE RequestApproval
  <2>1. /\ runner = "ask" /\ pending = {} /\ slot = Empty
        /\ UNCHANGED <<msgs, read, calls, place, closed>>
    BY <1>4 DEF RequestApproval, OtherThanEvents
  <2>2. CASE closed
    BY <1>4, <2>1, <2>2 DEF RequestApproval, Raise, Finish
  <2>3. CASE ~closed
    BY <1>4, <2>1, <2>3 DEF RequestApproval
  <2> QED BY <2>2, <2>3
<1>5. CASE TakeDecision
  <2>1. /\ runner = "wait" /\ pending' = {} /\ slot' = Empty
        /\ UNCHANGED <<msgs, read, closed>>
    BY <1>5 DEF TakeDecision, OtherThanEvents
  <2>2. CASE slot = Failed
    BY <1>5, <2>1, <2>2 DEF TakeDecision, Raise, Finish
  <2>3. CASE slot # Failed
    <3>1. /\ UNCHANGED calls /\ place' = place + 1
          /\ runner' = IF place < Len(calls) THEN "ask" ELSE "tools"
      BY <1>5, <2>3 DEF TakeDecision
    <3>2. place \in 1..Len(calls) /\ Len(calls) \in Nat /\ DOMAIN calls = 1..Len(calls)
      <4>1. calls \in Seq(CallIds) BY DEF TypeOK
      <4> QED BY <2>1, <4>1
    <3> QED BY <2>1, <3>1, <3>2
  <2> QED BY <2>2, <2>3
<1>6. CASE RunnerCancelled
  BY <1>6 DEF RunnerCancelled, Finish, streamVars
<1>7. CASE \/ (\E i \in tools : StartTool(i)) \/ (\E i \in written : EmitLens(i))
           \/ (\E i \in writing : ThreadWrites(i))
  <2>1. UNCHANGED <<msgs, read, runner, calls, place, pending, slot, closed>>
    BY <1>7 DEF StartTool, EmitLens, ThreadWrites, OtherThanEvents, streamVars
  <2> QED BY <2>1
<1>8. CASE ReadMessage
  \* A decision resolves the future only of the call it names.
  <2>1. UNCHANGED <<msgs, runner, calls, place, pending>> /\ read' = read + 1
    BY <1>8 DEF ReadMessage
  <2>2. \/ /\ slot' = read + 1 /\ slot = Empty /\ msgs[read + 1].id \in pending
           /\ closed' = closed
        \/ closed' = TRUE /\ slot' = IF pending # {} /\ slot = Empty THEN Failed ELSE slot
    BY <1>8 DEF ReadMessage, Close
  <2>3. read \in Nat BY DEF TypeOK, StreamTypeOK
  <2> QED BY <2>1, <2>2, <2>3
<1>9. CASE ReadEnd
  BY <1>9 DEF ReadEnd, Close, streamVars
<1>10. CASE HostStep
  <2>1. UNCHANGED <<runner, calls, place, pending, slot, closed, read>>
        /\ \A k \in 1..Len(msgs) : msgs'[k] = msgs[k]
    BY <1>10, HostMoves DEF HostStep, IInv, TypeOK
  <2>2. Resolved => slot \in 1..Len(msgs) BY DEF TypeOK, StreamTypeOK
  <2> QED BY <2>1, <2>2
<1> QED
  BY <1>1, <1>2, <1>3, <1>4, <1>5, <1>6, <1>7, <1>8, <1>9, <1>10, NextCases

-----------------------------------------------------------------------------
(* The request stream only grows, and what was read stays read. *)
LEMMA LogGrows ==
  ASSUME TypeOK, AnswersAnEvent, [Next]_vars
  PROVE  /\ read <= read'
         /\ \A k \in 1..Len(msgs) : k \in 1..Len(msgs') /\ msgs'[k] = msgs[k]
<1> USE DEF TypeOK, StreamTypeOK
<1>1. CASE HostStep
  BY <1>1, HostMoves DEF HostStep
<1>2. CASE ~HostStep
  <2>1. UNCHANGED msgs /\ read' \in {read, read + 1}
    BY <1>2, NextCases DEF InteractRejects, InteractAccepts, PumpYields, PumpCloses,
       PumpReturns, Transmit, EmitStarted, EmitText, ModelCalls, EmitCompleted, RunFails,
       RequestApproval, TakeDecision, ToolsReturn, RunnerCancelled, StartTool, EmitLens,
       ThreadWrites, ReadMessage, ReadEnd, ReaderCancelled, OtherThanEvents, streamVars, vars
  <2> QED BY <2>1
<1> QED BY <1>1, <1>2

(* Calls come under way only with a decision, move from the runner to their  *)
(* threads and back, and stop with the runner.                               *)
LEMMA ToolsMove ==
  ASSUME [Next]_vars, ~TakeDecision, \A i \in writing : ~ThreadWrites(i)
  PROVE  /\ UNCHANGED writes
         /\ tools' \subseteq tools /\ written' \subseteq written
         /\ writing' \subseteq writing \cup (tools \ tools')
<1> USE DEF toolVars
<1>1. CASE EmitCompleted \/ RunFails \/ RunnerCancelled
  BY <1>1 DEF EmitCompleted, RunFails, RunnerCancelled, Raise, Finish
<1>2. CASE RequestApproval
  BY <1>2 DEF RequestApproval, Raise, Finish
<1>3. CASE \E i \in tools : StartTool(i)
  BY <1>3 DEF StartTool
<1>4. CASE \E i \in written : EmitLens(i)
  BY <1>4 DEF EmitLens
<1>5. CASE \/ InteractRejects \/ InteractAccepts \/ PumpYields \/ PumpCloses \/ PumpReturns
           \/ EmitStarted \/ EmitText \/ ModelCalls \/ ToolsReturn \/ ReadMessage \/ ReadEnd
           \/ ReaderCancelled \/ HostStep \/ UNCHANGED vars
  BY <1>5 DEF InteractRejects, InteractAccepts, PumpYields, PumpCloses, PumpReturns,
     EmitStarted, EmitText, ModelCalls, ToolsReturn, ReadMessage, ReadEnd, ReaderCancelled,
     HostStep, vars
<1> QED BY <1>1, <1>2, <1>3, <1>4, <1>5, NextCases

LEMMA SlotElsewhere ==
  ASSUME [Next]_vars, ~ReadMessage
  PROVE  slot' \in {slot, Empty, Failed}
<1>1. CASE RequestApproval BY <1>1 DEF RequestApproval
<1>2. CASE ReadEnd BY <1>2 DEF ReadEnd, Close
<1>3. CASE ~RequestApproval /\ ~ReadEnd
  BY <1>3, NextCases DEF InteractRejects, InteractAccepts, PumpYields, PumpCloses,
     PumpReturns, EmitStarted, EmitText, ModelCalls, EmitCompleted, RunFails, TakeDecision,
     ToolsReturn, RunnerCancelled, StartTool, EmitLens, ThreadWrites, ReaderCancelled,
     HostStep, bridgeVars, vars
<1> QED BY <1>1, <1>2, <1>3

(* What the steps leave alone that begin or end no round and decide nothing. *)
LEMMA RoundElsewhere ==
  ASSUME [Next]_vars, ~ModelCalls, ~TakeDecision, ~ToolsReturn
  PROVE  UNCHANGED <<calls, decisions>>
BY NextCases DEF InteractRejects, InteractAccepts, PumpYields, PumpCloses, PumpReturns,
   EmitStarted, EmitText, EmitCompleted, RunFails, RequestApproval, RunnerCancelled,
   StartTool, EmitLens, ThreadWrites, ReadMessage, ReadEnd, ReaderCancelled, HostStep,
   roundVars, vars

(* ... nor does such a step take the runner out of its tools, or of its end, *)
(* but to its end.                                                           *)
LEMMA RunnerElsewhere ==
  ASSUME [Next]_vars, ~ModelCalls, ~TakeDecision, ~ToolsReturn,
         runner \in {"tools", "done"}
  PROVE  runner' \in {"tools", "done"}
BY NextCases DEF InteractRejects, InteractAccepts, PumpYields, PumpCloses, PumpReturns,
   EmitStarted, EmitText, EmitCompleted, RunFails, RequestApproval, RunnerCancelled,
   StartTool, EmitLens, ThreadWrites, ReadMessage, ReadEnd, ReaderCancelled, HostStep,
   Raise, Finish, vars

(* A call on its way to the disk, and the decision that approves it. *)
LEMMA CallUnderWay ==
  ASSUME IInv, NEW i \in UnderWay
  PROVE  /\ i \in Nat /\ i \in DOMAIN calls /\ i \in Places /\ calls[i] \in CallIds
         /\ By(i) \in Nat \ {0} /\ By(i) <= read /\ Approves(msgs, By(i), calls[i])
<1>1. calls \in Seq(CallIds) /\ UnderWay \subseteq Nat
  BY DEF IInv, TypeOK, UnderWay
<1>2. i \in DOMAIN calls /\ By(i) <= read /\ Approves(msgs, By(i), calls[i])
  BY DEF IInv, GrantInv
<1>3. calls[i] \in CallIds BY <1>1, <1>2
<1>4. By(i) \in Nat \ {0} BY <1>2 DEF Approves
<1>5. i \in Places BY <1>2 DEF IInv, RoundInv
<1> QED BY <1>1, <1>2, <1>3, <1>4, <1>5

(* If it is still to be written, no write is for this call under that        *)
(* decision; one for another call is under an id that rounds may repeat.     *)
LEMMA WriteUnderWay ==
  ASSUME IInv, NEW i \in tools \cup writing, NEW w \in writes, w.by = By(i)
  PROVE  w.id = calls[i] /\ w.at # i /\ calls[i] \in Repeated
<1>1. i \in DOMAIN calls /\ Approves(msgs, By(i), calls[i])
  BY CallUnderWay DEF UnderWay
<1>2. w.id = calls[i]
  BY <1>1 DEF IInv, GateHolds, Approves
<1>3. w.by = decisions[w.id] BY <1>2 DEF By
<1>4. w.at \in DOMAIN calls /\ calls[w.at] = w.id /\ w.at # i
  BY <1>3 DEF IInv, WriteInv
<1> QED BY <1>1, <1>2, <1>4 DEF IInv, RoundInv

(* What every step knows of the numbers. *)
LEMMA Numbers ==
  ASSUME IInv, [Next]_vars
  PROVE  /\ read \in Nat /\ read' \in Nat /\ read <= read'
         /\ read <= Len(msgs) /\ Len(msgs) \in Nat /\ slot \in Nat \cup {Failed}
         /\ \A w \in writes : w.by \in Nat \ {0} /\ w.by <= read /\ w.id \in CallIds
         /\ decisions \in [CallIds -> Nat] /\ calls \in Seq(CallIds)
<1>1. TypeOK /\ TypeOK' BY TypeStep DEF IInv
<1>2. read <= read' BY LogGrows DEF IInv
<1>3. \A w \in writes : w.by \in Nat \ {0} /\ w.by <= read /\ w.id \in CallIds
  <2> SUFFICES ASSUME NEW w \in writes
               PROVE  w.by \in Nat \ {0} /\ w.by <= read /\ w.id \in CallIds
    OBVIOUS
  <2>1. w \in Writes BY <1>1 DEF TypeOK
  <2>2. w.by <= read /\ Approves(msgs, w.by, w.id) BY DEF IInv, GateHolds
  <2> QED BY <2>1, <2>2 DEF Writes, Approves
<1>4. /\ read \in Nat /\ read <= Len(msgs) /\ Len(msgs) \in Nat
      /\ slot \in Nat \cup {Failed} /\ decisions \in [CallIds -> Nat] /\ calls \in Seq(CallIds)
  <2>1. TypeOK BY <1>1
  <2> QED BY <2>1 DEF TypeOK, StreamTypeOK
<1>5. read' \in Nat
  <2>1. StreamTypeOK' BY <1>1 DEF TypeOK
  <2> QED BY <2>1 DEF StreamTypeOK
<1> QED BY <1>2, <1>3, <1>4, <1>5

(* What approves still approves, and is still read. *)
LEMMA StillApproves ==
  ASSUME IInv, [Next]_vars, NEW k \in Nat, NEW id, k <= read, Approves(msgs, k, id)
  PROVE  k <= read' /\ Approves(msgs', k, id)
<1>1. \A j \in 1..Len(msgs) : j \in 1..Len(msgs') /\ msgs'[j] = msgs[j]
  BY LogGrows DEF IInv
<1> QED BY <1>1, Numbers DEF Approves

(* Every step keeps what a round knows of its calls. *)
LEMMA RoundStep ==
  ASSUME IInv, [Next]_vars
  PROVE  RoundInv'
\* A decision that has been read stays what it is.
<1>k. ASSUME NEW id \in CallIds, decisions[id] # 0
      PROVE  decisions[id] \in 1..read' /\ msgs'[decisions[id]].id = id
  <2>1. decisions[id] \in 1..read /\ msgs[decisions[id]].id = id
    BY <1>k DEF IInv, RoundInv
  <2>2. \A j \in 1..Len(msgs) : msgs'[j] = msgs[j]
    BY LogGrows DEF IInv
  <2> QED BY <2>1, <2>2, Numbers
<1>1. CASE ModelCalls
  <2>1. calls' \in Batches /\ decisions' = Undecided BY <1>1 DEF ModelCalls
  <2>2. \A i \in DOMAIN calls' : calls'[i] \in CallIds
    <3>1. calls' \in Seq(CallIds) BY <2>1, PyAssumption
    <3> QED BY <3>1
  <2>3. DOMAIN calls' \subseteq Places BY <2>1 DEF Places
  <2>4. \A i, j \in DOMAIN calls' : i # j /\ calls'[i] = calls'[j] => calls'[i] \in Repeated
    BY <2>1, <2>2 DEF Repeated
  <2> QED BY <2>1, <2>3, <2>4 DEF RoundInv, Undecided
<1>2. CASE TakeDecision
  <2>1. UNCHANGED <<calls, msgs, read>> /\ runner = "wait" /\ slot # Empty
    BY <1>2 DEF TakeDecision, OtherThanEvents
  <2>2. CASE slot = Failed
    <3>1. UNCHANGED decisions BY <1>2, <2>2 DEF TakeDecision
    <3> QED BY <2>1, <3>1 DEF IInv, RoundInv
  <2>3. CASE slot # Failed
    <3>1. decisions' = [decisions EXCEPT ![Call] = slot]
      BY <1>2, <2>3 DEF TakeDecision
    <3>2. slot \in 1..read /\ msgs[slot].id = Call
      BY <2>1, <2>3 DEF IInv, WaitInv, Resolved
    <3>3. \A id \in CallIds : decisions'[id] = IF id = Call THEN slot ELSE decisions[id]
      BY <3>1, Numbers
    <3> QED BY <2>1, <3>2, <3>3 DEF IInv, RoundInv
  <2> QED BY <2>2, <2>3
<1>3. CASE ToolsReturn
  BY <1>3 DEF ToolsReturn, RoundInv, Undecided
<1>4. CASE ~ModelCalls /\ ~TakeDecision /\ ~ToolsReturn
  <2>1. UNCHANGED <<calls, decisions>> BY <1>4, RoundElsewhere
  <2> QED BY <2>1, <1>k DEF IInv, RoundInv
<1> QED BY <1>1, <1>2, <1>3, <1>4

(* Every step keeps the calls under way approved, and each in one place. *)
LEMMA GrantStep ==
  ASSUME IInv, [Next]_vars
  PROVE  GrantInv'
<1>t. TypeOK /\ WaitInv /\ GrantInv BY DEF IInv
\* Calls already under way go on, under the same decisions.
<1>s. ASSUME UNCHANGED <<calls, decisions>>, UnderWay' \subseteq UnderWay,
             runner \in {"tools", "done"} => runner' \in {"tools", "done"},
             tools' \cap (writing' \cup written') = {}, writing' \cap written' = {}
      PROVE  GrantInv'
  <2>1. ASSUME NEW i \in UnderWay'
        PROVE  i \in DOMAIN calls' /\ By(i)' <= read' /\ Approves(msgs', By(i)', calls'[i])
    <3>1. i \in UnderWay BY <1>s
    <3>2. /\ i \in DOMAIN calls /\ By(i) \in Nat /\ By(i) <= read
          /\ Approves(msgs, By(i), calls[i])
      BY <3>1, CallUnderWay
    <3>3. By(i) <= read' /\ Approves(msgs', By(i), calls[i])
      BY <3>2, StillApproves
    <3>4. By(i)' = By(i) BY <1>s DEF By
    <3> QED BY <3>2, <3>3, <3>4, <1>s
  <2>2. UnderWay' # {} => runner' \in {"tools", "done"}
    BY <1>s, <1>t DEF GrantInv
  <2> QED BY <2>1, <2>2, <1>s DEF GrantInv
<1>1. CASE TakeDecision
  <2>1. UNCHANGED <<calls, msgs, read>> /\ runner = "wait" /\ slot # Empty
    BY <1>1 DEF TakeDecision, OtherThanEvents
  <2>2. UnderWay = {} /\ tools = {} /\ writing = {} /\ written = {}
    BY <2>1, <1>t DEF GrantInv, UnderWay
  <2>3. CASE slot = Failed
    <3>1. Finish BY <1>1, <2>3 DEF TakeDecision, Raise
    <3> QED BY <2>2, <3>1 DEF Finish, GrantInv, UnderWay
  <2>4. CASE slot # Failed
    <3>1. /\ decisions' = [decisions EXCEPT ![Call] = slot]
          /\ UNCHANGED <<writing, written>>
          /\ \/ UNCHANGED tools
             \/ runner' = "tools" /\ tools' = Approved(decisions')
      BY <1>1, <2>4 DEF TakeDecision
    <3>2. CASE UNCHANGED tools
      BY <2>2, <3>1, <3>2 DEF GrantInv, UnderWay
    <3>3. CASE runner' = "tools" /\ tools' = Approved(decisions')
      <4>1. RoundInv' BY RoundStep
      <4>2. ASSUME NEW i \in tools'
            PROVE  i \in DOMAIN calls' /\ By(i)' <= read' /\ Approves(msgs', By(i)', calls'[i])
        <5>1. /\ i \in DOMAIN calls /\ decisions'[calls[i]] # 0
              /\ msgs[decisions'[calls[i]]].kind = "approved"
          BY <3>3, <4>2 DEF Approved
        <5>2. calls[i] \in CallIds BY <5>1, Numbers
        <5>3. decisions'[calls[i]] \in 1..read /\ msgs[decisions'[calls[i]]].id = calls[i]
          BY <2>1, <4>1, <5>1, <5>2 DEF RoundInv
        <5>4. decisions'[calls[i]] \in 1..Len(msgs) /\ decisions'[calls[i]] <= read
          BY <5>3, Numbers
        <5>5. By(i)' = decisions'[calls[i]] BY <2>1 DEF By
        <5> QED BY <2>1, <5>1, <5>3, <5>4, <5>5 DEF Approves
      <4>3. UnderWay' = tools' /\ writing' = {} /\ written' = {}
        BY <2>2, <3>1 DEF UnderWay
      <4> QED BY <3>3, <4>2, <4>3 DEF GrantInv
    <3> QED BY <3>1, <3>2, <3>3
  <2> QED BY <2>3, <2>4
<1>2. ASSUME NEW i \in writing, ThreadWrites(i) PROVE GrantInv'
  <2>1. /\ UNCHANGED <<calls, decisions, runner, tools>> /\ writing' = writing \ {i}
        /\ written' \in {written, written \cup {i}}
    BY <1>2 DEF ThreadWrites, roundVars
  <2>2. UnderWay' \subseteq UnderWay BY <2>1 DEF UnderWay
  <2>3. tools' \cap (writing' \cup written') = {} /\ writing' \cap written' = {}
    BY <2>1, <1>t DEF GrantInv
  <2> QED BY <2>1, <2>2, <2>3, <1>s
<1>3. CASE ModelCalls \/ ToolsReturn
  <2>1. UNCHANGED <<tools, writing, written>> /\ (runner = "model" \/ UnderWay = {})
    BY <1>3 DEF ModelCalls, ToolsReturn, toolVars, UnderWay
  <2>2. UnderWay' = {}
    BY <2>1, <1>t DEF GrantInv, UnderWay
  <2> QED BY <2>2 DEF GrantInv, UnderWay
<1>4. CASE /\ ~TakeDecision /\ ~ModelCalls /\ ~ToolsReturn
           /\ \A i \in writing : ~ThreadWrites(i)
  <2>1. /\ tools' \subseteq tools /\ written' \subseteq written
        /\ writing' \subseteq writing \cup (tools \ tools')
    BY <1>4, ToolsMove
  <2>2. UnderWay' \subseteq UnderWay BY <2>1 DEF UnderWay
  <2>3. tools' \cap (writing' \cup written') = {} /\ writing' \cap written' = {}
    BY <2>1, <1>t DEF GrantInv
  <2> QED BY <1>4, <2>2, <2>3, <1>s, RoundElsewhere, RunnerElsewhere
<1> QED BY <1>1, <1>2, <1>3, <1>4

(* Every step keeps the writes apart from the calls still to be written. *)
LEMMA WriteStep ==
  ASSUME IInv, [Next]_vars
  PROVE  WriteInv'
<1>t. WaitInv /\ GrantInv /\ WriteInv BY DEF IInv
\* A decision that resolves the future comes after all that was read before.
<1>n. Resolved' => \A w \in writes : w.by < slot'
  <2>1. CASE ReadMessage
    <3>1. slot' = read + 1 \/ slot' \in {slot, Failed}
      BY <2>1 DEF ReadMessage, Close
    <3>2. CASE slot' = read + 1 BY <3>2, Numbers
    <3>3. CASE slot' = slot BY <3>3, <1>t DEF Resolved, WriteInv
    <3> QED BY <3>1, <3>2, <3>3 DEF Resolved
  <2>2. CASE ~ReadMessage
    <3>1. slot' \in {slot, Empty, Failed} BY <2>2, SlotElsewhere
    <3> QED BY <3>1, <1>t DEF Resolved, WriteInv
  <2> QED BY <2>1, <2>2
\* No write is under a decision of the round at hand.
<1>z. ASSUME UNCHANGED writes, \A w \in writes : w.by # decisions'[w.id]
      PROVE  WriteInv'
  BY <1>n, <1>z DEF WriteInv
<1>1. CASE ModelCalls \/ ToolsReturn
  <2>1. UNCHANGED writes /\ decisions' = Undecided
    BY <1>1 DEF ModelCalls, ToolsReturn, toolVars
  <2>2. \A w \in writes : w.by # decisions'[w.id]
    BY <2>1, Numbers DEF Undecided
  <2> QED BY <2>1, <2>2, <1>z
<1>2. CASE TakeDecision
  <2>1. UNCHANGED writes /\ runner = "wait" /\ slot # Empty
    BY <1>2 DEF TakeDecision, Raise, Finish
  <2>2. \A w \in writes : w.by # decisions[w.id] BY <2>1, <1>t DEF WriteInv
  <2>3. CASE slot = Failed
    <3>1. UNCHANGED decisions BY <1>2, <2>3 DEF TakeDecision
    <3> QED BY <2>1, <2>2, <3>1, <1>z
  <2>4. CASE slot # Failed
    <3>1. decisions' = [decisions EXCEPT ![Call] = slot]
      BY <1>2, <2>4 DEF TakeDecision
    <3>2. \A w \in writes : decisions'[w.id] = IF w.id = Call THEN slot ELSE decisions[w.id]
      BY <3>1, Numbers
    <3>3. \A w \in writes : w.by < slot /\ w.by # slot
      <4>1. \A w \in writes : w.by < slot BY <2>1, <2>4, <1>t DEF Resolved, WriteInv
      <4>2. slot \in Nat BY <2>4, Numbers
      <4> QED BY <4>1, <4>2, Numbers
    <3> QED BY <2>1, <2>2, <3>2, <3>3, <1>z
  <2> QED BY <2>3, <2>4
<1>3. ASSUME NEW i \in writing, ThreadWrites(i) PROVE WriteInv'
  <2>1. /\ UNCHANGED <<calls, decisions, runner, tools, slot>> /\ writing' = writing \ {i}
    BY <1>3 DEF ThreadWrites, roundVars, bridgeVars
  <2>2. PICK whole \in BOOLEAN : writes' \subseteq writes \cup {LensWrite(i, whole)}
    BY <1>3 DEF ThreadWrites
  <2>3. /\ i \in DOMAIN calls /\ i \notin tools /\ runner \in {"tools", "done"}
        /\ slot = Empty
    BY CallUnderWay, <1>t DEF GrantInv, UnderWay, WaitInv
  <2>4. ~Resolved' BY <2>1, <2>3 DEF Resolved
  <2> DEFINE x == LensWrite(i, whole)
  <2>5. x.id = calls[i] /\ x.at = i BY DEF LensWrite, Write
  <2> HIDE DEF x
  <2>6. \A w \in writes' : w \in writes \/ w = x BY <2>2 DEF x
  <2>7. ASSUME NEW w \in writes', w.by = decisions'[w.id]
        PROVE  /\ runner' \in {"tools", "done"}
               /\ w.at \in DOMAIN calls' /\ calls'[w.at] = w.id
               /\ w.at \notin tools' \cup writing'
    <3>1. CASE w \in writes BY <2>1, <2>7, <3>1, <1>t DEF WriteInv
    <3>2. CASE w = x BY <2>1, <2>3, <2>5, <3>2
    <3> QED BY <2>6, <3>1, <3>2
  <2> QED BY <2>4, <2>7 DEF WriteInv
<1>4. CASE /\ ~TakeDecision /\ ~ModelCalls /\ ~ToolsReturn
           /\ \A i \in writing : ~ThreadWrites(i)
  <2>1. /\ UNCHANGED writes /\ tools' \subseteq tools
        /\ writing' \subseteq writing \cup (tools \ tools')
    BY <1>4, ToolsMove
  <2>2. UNCHANGED <<calls, decisions>> BY <1>4, RoundElsewhere
  <2>3. runner \in {"tools", "done"} => runner' \in {"tools", "done"}
    BY <1>4, RunnerElsewhere
  <2> QED BY <2>1, <2>2, <2>3, <1>n, <1>t DEF WriteInv
<1> QED BY <1>1, <1>2, <1>3, <1>4

(* Every step keeps the gate. *)
LEMMA GateStep ==
  ASSUME IInv, [Next]_vars
  PROVE  GateHolds'
<1>g. GateHolds BY DEF IInv
<1>o. \A w \in writes : w.by <= read' /\ Approves(msgs', w.by, w.id)
  BY <1>g, Numbers, StillApproves DEF GateHolds
<1>1. ASSUME NEW i \in writing, ThreadWrites(i) PROVE GateHolds'
  <2>1. UNCHANGED <<msgs, read>> BY <1>1 DEF ThreadWrites, streamVars
  <2>2. PICK whole \in BOOLEAN : writes' \subseteq writes \cup {LensWrite(i, whole)}
    BY <1>1 DEF ThreadWrites
  <2> DEFINE x == LensWrite(i, whole)
  <2>3. x.id = calls[i] /\ x.by = By(i) /\ x.at = i BY DEF LensWrite, Write, By
  <2> HIDE DEF x
  <2>4. \A w \in writes' : w \in writes \/ w = x BY <2>2 DEF x
  <2>5. By(i) <= read /\ Approves(msgs, By(i), calls[i])
    BY CallUnderWay DEF UnderWay
  <2>6. \A w \in writes : w.by = By(i) =>
          w.id = calls[i] /\ w.at # i /\ calls[i] \in Repeated
    BY WriteUnderWay
  <2>7. \A w \in writes' : w.by <= read' /\ Approves(msgs', w.by, w.id)
    BY <1>o, <2>1, <2>3, <2>4, <2>5
  <2>8. ASSUME NEW v \in writes', NEW w \in writes', v.by = w.by
        PROVE  v = w \/ (v.at # w.at /\ v.id \in Repeated)
    <3>1. CASE v \in writes /\ w \in writes BY <2>8, <3>1, <1>g DEF GateHolds
    <3>2. CASE v \in writes /\ w = x BY <2>3, <2>6, <2>8, <3>2
    <3>3. CASE v = x /\ w \in writes BY <2>3, <2>6, <2>8, <3>3
    <3> QED BY <2>4, <3>1, <3>2, <3>3
  <2> QED BY <2>7, <2>8 DEF GateHolds
<1>2. CASE \A i \in writing : ~ThreadWrites(i)
  <2>1. UNCHANGED writes
    <3>1. CASE TakeDecision BY <3>1 DEF TakeDecision, Raise, Finish
    <3>2. CASE ~TakeDecision BY <1>2, <3>2, ToolsMove
    <3> QED BY <3>1, <3>2
  <2> QED BY <2>1, <1>o, <1>g DEF GateHolds
<1> QED BY <1>1, <1>2

-----------------------------------------------------------------------------
LEMMA AnswersStep ==
  ASSUME TypeOK, AnswersAnEvent, [Next]_vars
  PROVE  AnswersAnEvent' /\ (link' = "up" => link = "up")
<1>1. CASE HostStep BY <1>1, HostMoves DEF HostStep, TypeOK
<1>2. CASE ~HostStep
  <2>1. UNCHANGED <<host, delivered, link>>
    BY <1>2, NextCases DEF InteractRejects, InteractAccepts, PumpYields, PumpCloses,
       PumpReturns, Transmit, EmitStarted, EmitText, ModelCalls, EmitCompleted, RunFails,
       RequestApproval, TakeDecision, ToolsReturn, RunnerCancelled, StartTool, EmitLens,
       ThreadWrites, ReadMessage, ReadEnd, ReaderCancelled, OtherThanEvents, streamVars, vars
  <2> QED BY <2>1 DEF AnswersAnEvent
<1> QED BY <1>1, <1>2

(* The invariant holds at first ... *)
LEMMA InitInvariant == Init => IInv
<1> SUFFICES ASSUME Init PROVE IInv
  OBVIOUS
<1> USE DEF Init, StreamInit
<1>1. TypeOK
  <2>1. StreamTypeOK BY DEF StreamTypeOK
  <2>2. calls \in Seq(CallIds) BY EmptySeq
  <2>3. made \in 0..MaxCalls /\ slot \in Nat BY PyAssumption DEF Empty
  <2>4. decisions \in [CallIds -> Nat] BY DEF Undecided
  <2> QED BY <2>1, <2>2, <2>3, <2>4 DEF TypeOK
<1>2. AnswersAnEvent BY DEF AnswersAnEvent
<1>3. WaitInv BY DEF WaitInv, Resolved
<1>4. RoundInv BY DEF RoundInv, Undecided
<1>5. GrantInv /\ WriteInv /\ GateHolds
  BY DEF GrantInv, WriteInv, GateHolds, UnderWay
<1> QED BY <1>1, <1>2, <1>3, <1>4, <1>5 DEF IInv

(* ... and always. *)
THEOREM Invariance == Spec => []IInv
<1>1. IInv /\ [Next]_vars => IInv'
  BY TypeStep, AnswersStep, WaitStep, RoundStep, GrantStep, WriteStep, GateStep DEF IInv
<1> QED BY <1>1, InitInvariant, PTL DEF Spec

(* The types of every variable, for any batches, bounds and host. *)
THEOREM TypeCorrect == Spec => []TypeOK
<1>1. IInv => TypeOK BY DEF IInv
<1> QED BY <1>1, Invariance, PTL

(* Whatever the host sends and however tasks and threads interleave, every   *)
(* lens write of the Python sidecar is under a decision that approves its    *)
(* call, those of threads that outlive the turn included, and only calls     *)
(* under an id that a round may repeat share a decision.                     *)
THEOREM GateAlwaysHolds == Spec => []GateHolds
<1>1. IInv => GateHolds BY DEF IInv
<1> QED BY <1>1, Invariance, PTL

(* Once the reader has closed the bridge it stays closed: no later request   *)
(* is waited for, and the one waited for has an answer or has failed.        *)
THEOREM ClosedIsAlwaysFinal == Spec => ClosedIsFinal
<1>1. IInv /\ [Next]_vars =>
        [closed => /\ closed'
                   /\ runner # "wait" => runner' # "wait"
                   /\ runner = "wait" => slot # Empty]_vars
  <2> SUFFICES ASSUME IInv, [Next]_vars, closed
               PROVE  /\ closed'
                      /\ runner # "wait" => runner' # "wait"
                      /\ runner = "wait" => slot # Empty
    OBVIOUS
  <2>1. runner = "wait" => slot # Empty BY DEF IInv, WaitInv
  <2>2. CASE RequestApproval
    BY <2>1, <2>2 DEF RequestApproval, Raise, Finish
  <2>3. CASE TakeDecision
    BY <2>1, <2>3 DEF TakeDecision, Raise, Finish
  <2>4. CASE ReadMessage
    BY <2>1, <2>4 DEF ReadMessage, Close
  <2>5. CASE ~RequestApproval /\ ~TakeDecision /\ ~ReadMessage
    <3>1. closed' = closed \/ closed' = TRUE
      BY <2>5, NextCases DEF InteractRejects, InteractAccepts, PumpYields, PumpCloses,
         PumpReturns, EmitStarted, EmitText, ModelCalls, EmitCompleted, RunFails,
         ToolsReturn, RunnerCancelled, StartTool, EmitLens, ThreadWrites, ReadEnd, Close,
         ReaderCancelled, HostStep, bridgeVars, vars
    <3>2. runner' \in {runner, "starting", "model", "ask", "done"}
      BY <2>5, NextCases DEF InteractRejects, InteractAccepts, PumpYields, PumpCloses,
         PumpReturns, EmitStarted, EmitText, ModelCalls, EmitCompleted, RunFails,
         ToolsReturn, RunnerCancelled, StartTool, EmitLens, ThreadWrites, ReadEnd, Raise,
         Finish, ReaderCancelled, HostStep, vars
    <3> QED BY <2>1, <3>1, <3>2
  <2> QED BY <2>2, <2>3, <2>4, <2>5
<1> QED BY <1>1, Invariance, PTL DEF Spec, ClosedIsFinal

-----------------------------------------------------------------------------
(***************************************************************************)
(* What ending with a terminal event rests on: the generator closes only   *)
(* after the runner is done or the client is gone, and only a runner whose *)
(* client is gone is cancelled before its last event.                      *)
(***************************************************************************)
EndInv ==
  /\ response = "ended" => runner = "done"
  /\ pump \in {"closing", "returned"} /\ link = "up" => runner = "done"
  /\ runner = "done" /\ link = "up" =>
       events # <<>> /\ events[Len(events)].kind \in Terminal

LEMMA EndStep ==
  ASSUME IInv, EndInv, [Next]_vars
  PROVE  EndInv'
<1>l. link' = "up" => link = "up" BY AnswersStep DEF IInv
<1> USE <1>l DEF EndInv
\* The last event of a runner that is done.
<1>e. ASSUME NEW kind \in Terminal, events' = Append(events, Signal(kind))
      PROVE  events' # <<>> /\ events'[Len(events')].kind \in Terminal
  <2>1. events \in Seq(AgentEvent) BY DEF IInv, TypeOK, StreamTypeOK
  <2>2. Signal(kind) \in AgentEvent /\ Signal(kind).kind = kind
    BY SignalFields DEF Terminal, EventKinds
  <2> QED BY <1>e, <2>1, <2>2, OneMoreEvent
<1>1. CASE InteractRejects \/ InteractAccepts
  <2>1. UNCHANGED events /\ runner = "idle" /\ runner' \in {"idle", "starting"}
        /\ response' \in {response, "rejected"}
        /\ (pump' = pump \/ pump' = "running")
    BY <1>1 DEF InteractRejects, InteractAccepts
  <2> QED BY <2>1
<1>2. CASE PumpCloses \/ PumpReturns
  <2>1. UNCHANGED <<events, runner, link>> /\ (runner = "done" \/ link # "up")
        /\ response' \in {response, "ended"} /\ (response' = response \/ runner = "done")
    BY <1>2 DEF PumpCloses, PumpReturns, streamVars
  <2> QED BY <2>1
<1>3. CASE EmitCompleted \/ RunFails
  <2>1. UNCHANGED <<response, pump>> /\ runner' = "done"
        /\ \E kind \in Terminal : events' = Append(events, Signal(kind))
    BY <1>3 DEF EmitCompleted, RunFails, Raise, Finish, OtherThanEvents, Terminal
  <2> QED BY <2>1, <1>e
<1>4. CASE RequestApproval \/ TakeDecision
  <2>1. UNCHANGED <<response, pump, link>> /\ runner \in {"ask", "wait"}
    BY <1>4 DEF RequestApproval, TakeDecision, OtherThanEvents
  <2>2. Raise \/ runner' \in {"wait", "tools", "ask"}
    BY <1>4 DEF RequestApproval, TakeDecision
  <2>3. CASE Raise
    <3>1. runner' = "done" /\ events' = Append(events, Signal("error"))
      BY <2>3 DEF Raise, Finish
    <3> QED BY <2>1, <3>1, <1>e DEF Terminal
  <2> QED BY <2>1, <2>2, <2>3
<1>5. CASE RunnerCancelled
  BY <1>5 DEF RunnerCancelled, Finish, streamVars
<1>6. CASE \/ EmitStarted \/ EmitText \/ ModelCalls \/ ToolsReturn
           \/ (\E i \in tools : StartTool(i)) \/ (\E i \in written : EmitLens(i))
  <2>1. UNCHANGED <<response, pump, link>> /\ runner # "done" /\ runner' # "done"
    BY <1>6 DEF EmitStarted, EmitText, ModelCalls, ToolsReturn, StartTool, EmitLens,
       OtherThanEvents, streamVars
  <2> QED BY <2>1
<1>7. CASE \/ PumpYields \/ ReadMessage \/ ReadEnd \/ ReaderCancelled \/ HostStep
           \/ (\E i \in writing : ThreadWrites(i)) \/ UNCHANGED vars
  <2>1. UNCHANGED <<response, pump, runner, events>>
    BY <1>7, HostMoves DEF PumpYields, Transmit, ReadMessage, ReadEnd, ReaderCancelled,
       HostStep, ThreadWrites, streamVars, vars, IInv, TypeOK
  <2> QED BY <2>1
<1> QED
  BY <1>1, <1>2, <1>3, <1>4, <1>5, <1>6, <1>7, NextCases

(* A call that is not cut off ends with status OK only after a Completed or  *)
(* an Error, whatever the host sends and whenever the run fails.             *)
THEOREM AlwaysEndsWithTerminal == Spec => []EndsWithTerminal
<1>1. Init => EndInv
  BY DEF Init, StreamInit, EndInv
<1>2. IInv /\ EndInv /\ [Next]_vars => EndInv'
  BY EndStep
<1>3. EndInv => EndsWithTerminal
  BY DEF EndInv, EndsWithTerminal
<1> QED BY <1>1, <1>2, <1>3, Invariance, PTL DEF Spec

-----------------------------------------------------------------------------
(***************************************************************************)
(* What makes every step of the sidecar a step of AgentTurn: how far the   *)
(* response stream is, told from where the runner stands. A decision is    *)
(* awaited only after its request was queued, so that every id with a      *)
(* decision was asked about; and a write that is back on the event loop is *)
(* on the disk and not yet announced.                                      *)
(***************************************************************************)
LensTold ==
  \A i \in DOMAIN events : events[i].kind = "lens" =>
    \E w \in writes : w.by = events[i].by /\ w.at = events[i].at

DecidedAsked == \A id \in CallIds : decisions[id] # 0 => Asked(id)

WrittenUntold ==
  \A i \in written : LensWrite(i, TRUE) \in writes /\ NotTold(By(i), i)

Heard ==
  /\ runner = "idle" => read = 0 /\ reader = "idle"
  /\ runner # "idle" => msgs # <<>> /\ msgs[1].kind = "prompt"

Spoken ==
  /\ runner \in {"idle", "starting"} => events = <<>>
  /\ runner \notin {"idle", "starting", "done"} =>
       events # <<>> /\ events[Len(events)].kind \notin Terminal
  /\ runner = "wait" => Asked(Call)
  /\ DecidedAsked /\ WrittenUntold /\ LensTold

TurnInv == Heard /\ Spoken

(* Every step keeps what has been heard. *)
LEMMA HeardStep ==
  ASSUME IInv, Heard, [Next]_vars
  PROVE  Heard'
<1> USE DEF Heard
<1>1. CASE InteractRejects \/ UNCHANGED vars
  BY <1>1 DEF InteractRejects, vars, streamVars
<1>2. CASE InteractAccepts
  BY <1>2 DEF InteractAccepts, IInv, TypeOK, StreamTypeOK
<1>3. CASE HostStep
  <2>1. UNCHANGED <<runner, read, reader>>
    BY <1>3, HostMoves DEF HostStep, IInv, TypeOK
  <2>2. msgs # <<>> => msgs' # <<>> /\ msgs'[1] = msgs[1]
    BY <1>3, HostMoves DEF HostStep, IInv, TypeOK, StreamTypeOK
  <2> QED BY <2>1, <2>2
<1>4. CASE \/ PumpYields \/ PumpCloses \/ PumpReturns
           \/ (\E i \in writing : ThreadWrites(i))
  <2>1. UNCHANGED <<runner, read, reader, msgs>>
    BY <1>4 DEF PumpYields, PumpCloses, PumpReturns, Transmit, ThreadWrites, streamVars
  <2> QED BY <2>1
<1>5. CASE ReaderNext
  <2>1. UNCHANGED <<runner, msgs>> /\ reader # "idle"
    BY <1>5 DEF ReaderNext, ReadMessage, ReadEnd, ReaderCancelled, streamVars
  <2> QED BY <2>1
<1>6. CASE RunnerNext
  <2>1. UNCHANGED msgs /\ runner # "idle"
    BY <1>6 DEF RunnerNext, EmitStarted, EmitText, ModelCalls, EmitCompleted, RunFails,
       RequestApproval, TakeDecision, ToolsReturn, RunnerCancelled, StartTool, EmitLens,
       OtherThanEvents, streamVars
  <2>2. runner' # "idle"
    <3>1. CASE RequestApproval \/ TakeDecision
      BY <3>1 DEF RequestApproval, TakeDecision, Raise, Finish
    <3>2. CASE ~RequestApproval /\ ~TakeDecision
      BY <1>6, <3>2 DEF RunnerNext, EmitStarted, EmitText, ModelCalls, EmitCompleted,
         RunFails, ToolsReturn, RunnerCancelled, StartTool, EmitLens, Raise, Finish
    <3> QED BY <3>1, <3>2
  <2> QED BY <2>1, <2>2
<1> QED BY <1>1, <1>2, <1>3, <1>4, <1>5, <1>6 DEF Next

(* What one more event adds to what was said, whatever else its step does. *)
LEMMA Queued ==
  ASSUME IInv, LensTold, NEW e \in AgentEvent, events' = Append(events, e),
         UNCHANGED writes,
         e.kind = "lens" => \E w \in writes : w.by = e.by /\ w.at = e.at
  PROVE  /\ LensTold'
         /\ events' # <<>> /\ events'[Len(events')] = e
         /\ \A id : Asked(id) \/ (e.kind = "request" /\ e.id = id) => Asked(id)'
         /\ \A k, i : NotTold(k, i) /\ (e.kind = "lens" => e.by # k \/ e.at # i)
                       => NotTold(k, i)'
<1>1. events \in Seq(AgentEvent) BY DEF IInv, TypeOK, StreamTypeOK
<1>2. /\ events' # <<>> /\ events'[Len(events')] = e
      /\ \A i \in DOMAIN events' : (i \in DOMAIN events /\ events'[i] = events[i])
                                    \/ events'[i] = e
      /\ \A id : Asked(id) \/ (e.kind = "request" /\ e.id = id) => Asked(id)'
      /\ \A k, i : NotTold(k, i) /\ (e.kind = "lens" => e.by # k \/ e.at # i)
                    => NotTold(k, i)'
  BY <1>1, MoreSaid
<1>3. LensTold' BY <1>2 DEF LensTold
<1> QED BY <1>2, <1>3

(* What was written stays to be announced, while its round goes on. *)
LEMMA UntoldStays ==
  ASSUME WrittenUntold, written' \subseteq written, writes \subseteq writes',
         UNCHANGED <<calls, decisions>>,
         \A i \in written' : NotTold(By(i), i) => NotTold(By(i), i)'
  PROVE  WrittenUntold'
<1>1. ASSUME NEW i \in written'
      PROVE  LensWrite(i, TRUE)' \in writes' /\ NotTold(By(i), i)'
  <2>1. LensWrite(i, TRUE)' = LensWrite(i, TRUE) BY DEF LensWrite
  <2> QED BY <2>1 DEF WrittenUntold
<1> QED BY <1>1 DEF WrittenUntold

(* A run that ends, with a last event or cancelled before it, leaves what is *)
(* with the threads as it was.                                               *)
LEMMA FinishStep ==
  ASSUME IInv, Spoken, Finish, UNCHANGED decisions,
         \/ UNCHANGED events
         \/ \E kind \in Terminal : events' = Append(events, Signal(kind))
  PROVE  Spoken'
<1>1. UNCHANGED writes /\ written' = {} /\ runner' = "done"
  BY DEF Finish
<1>2. LensTold' /\ \A id : Asked(id) => Asked(id)'
  <2>1. CASE UNCHANGED events BY <1>1, <2>1 DEF Spoken, LensTold, Asked
  <2>2. ASSUME NEW kind \in Terminal, events' = Append(events, Signal(kind))
        PROVE  LensTold' /\ \A id : Asked(id) => Asked(id)'
    <3>1. Signal(kind) \in AgentEvent /\ Signal(kind).kind # "lens"
      BY SignalFields DEF Terminal, EventKinds
    <3> QED BY <1>1, <2>2, <3>1, Queued DEF Spoken
  <2> QED BY <2>1, <2>2
<1>3. DecidedAsked' /\ WrittenUntold'
  BY <1>1, <1>2 DEF Spoken, DecidedAsked, WrittenUntold
<1> QED BY <1>1, <1>2, <1>3 DEF Spoken

(* Every step keeps the events in line with the runner. *)
LEMMA SpokenStep ==
  ASSUME IInv, TurnInv, [Next]_vars
  PROVE  Spoken'
<1>t. /\ WaitInv /\ GrantInv /\ Spoken
      /\ DecidedAsked /\ WrittenUntold /\ LensTold
  BY DEF IInv, TurnInv, Spoken
<1>c. runner \in {"ask", "wait"} => Call \in CallIds
  BY <1>t DEF IInv, TypeOK, WaitInv, Call
\* A step that leaves events and writes alone, whatever else it does.
<1>q. ASSUME UNCHANGED <<events, writes>>
      PROVE  /\ LensTold'
             /\ \A id : Asked(id) => Asked(id)'
             /\ \A k, i : NotTold(k, i) => NotTold(k, i)'
  BY <1>q, <1>t DEF LensTold, Asked, NotTold
\* Where what is told and asked stays so, and the round goes on.
<1>d. ASSUME UNCHANGED <<calls, decisions, writes>>, written' \subseteq written,
             \A id : Asked(id) => Asked(id)',
             \A k, i : NotTold(k, i) => NotTold(k, i)'
      PROVE  DecidedAsked' /\ WrittenUntold'
  <2>1. DecidedAsked' BY <1>d, <1>t DEF DecidedAsked
  <2>2. \A i \in written' : NotTold(By(i), i) => NotTold(By(i), i)'
    <3>1. \A i : By(i)' = By(i) BY <1>d DEF By
    <3> QED BY <1>d, <3>1 DEF NotTold
  <2>3. WrittenUntold' BY <1>d, <2>2, <1>t, UntoldStays
  <2> QED BY <2>1, <2>3
<1>1. CASE EmitStarted \/ EmitText
  <2>1. PICK kind \in {"started", "text"} : events' = Append(events, Signal(kind))
    BY <1>1 DEF EmitStarted, EmitText
  <2>2. UNCHANGED <<calls, decisions, written, writes>> /\ runner' = "model"
    BY <1>1 DEF EmitStarted, EmitText, roundVars, toolVars
  <2>3. Signal(kind) \in AgentEvent /\ Signal(kind).kind = kind
    BY SignalFields DEF EventKinds
  <2>4. /\ LensTold' /\ events' # <<>> /\ events'[Len(events')] = Signal(kind)
        /\ \A id : Asked(id) => Asked(id)'
        /\ \A k, i : NotTold(k, i) => NotTold(k, i)'
    BY <2>1, <2>2, <2>3, <1>t, Queued
  <2>5. DecidedAsked' /\ WrittenUntold' BY <2>2, <2>4, <1>d
  <2> QED BY <2>2, <2>3, <2>4, <2>5 DEF Spoken, Terminal
<1>2. CASE InteractAccepts
  <2>1. UNCHANGED <<events, calls, decisions, written, writes>>
        /\ runner = "idle" /\ runner' = "starting"
    BY <1>2 DEF InteractAccepts, roundVars, toolVars
  <2>2. DecidedAsked' /\ WrittenUntold' BY <2>1, <1>q, <1>d
  <2> QED BY <2>1, <2>2, <1>q, <1>t DEF Spoken
<1>3. CASE ModelCalls \/ ToolsReturn
  <2>1. UNCHANGED <<events, written, writes>> /\ decisions' = Undecided
        /\ runner \in {"model", "tools"} /\ runner' \in {"ask", "model"}
    BY <1>3 DEF ModelCalls, ToolsReturn, toolVars, streamVars
  <2>2. written = {}
    BY <1>3, <1>t DEF ModelCalls, ToolsReturn, GrantInv, UnderWay
  <2>3. DecidedAsked' /\ WrittenUntold'
    BY <2>1, <2>2 DEF DecidedAsked, WrittenUntold, Undecided
  <2> QED BY <2>1, <2>3, <1>q, <1>t DEF Spoken
<1>4. CASE EmitCompleted \/ RunFails \/ RunnerCancelled
  <2>1. Finish /\ UNCHANGED decisions
        /\ (UNCHANGED events \/ \E kind \in Terminal : events' = Append(events, Signal(kind)))
    BY <1>4 DEF EmitCompleted, RunFails, RunnerCancelled, Raise, Terminal, streamVars,
       roundVars
  <2> QED BY <2>1, <1>t, FinishStep
<1>5. CASE RequestApproval
  <2>1. UNCHANGED <<calls, place, decisions>> /\ runner = "ask"
    BY <1>5 DEF RequestApproval, roundVars
  <2>2. CASE Raise
    BY <2>1, <2>2, <1>t, FinishStep DEF Raise, Terminal
  <2>3. CASE ~Raise
    <3> DEFINE e == Request(Call)
    <3>1. /\ runner' = "wait" /\ events' = Append(events, e)
          /\ UNCHANGED <<written, writes>>
      BY <1>5, <2>3 DEF RequestApproval, toolVars
    <3>2. e \in AgentEvent /\ e.kind = "request" /\ e.id = Call
      BY <2>1, <1>c, RequestFields
    <3> HIDE DEF e
    <3>3. /\ LensTold' /\ events' # <<>> /\ events'[Len(events')] = e
          /\ \A id : Asked(id) \/ (e.kind = "request" /\ e.id = id) => Asked(id)'
          /\ \A k, i : NotTold(k, i) => NotTold(k, i)'
      BY <3>1, <3>2, <1>t, Queued
    <3>4. DecidedAsked' /\ WrittenUntold' BY <2>1, <3>1, <3>3, <1>d
    <3>5. Asked(Call)' BY <2>1, <3>2, <3>3 DEF Asked, Call
    <3> QED BY <3>1, <3>2, <3>3, <3>4, <3>5 DEF Spoken, Terminal
  <2> QED BY <2>2, <2>3
<1>6. CASE TakeDecision
  <2>1. UNCHANGED calls /\ runner = "wait" BY <1>6 DEF TakeDecision
  <2>2. CASE slot = Failed
    <3>1. Raise /\ UNCHANGED decisions BY <1>6, <2>2 DEF TakeDecision
    <3> QED BY <3>1, <1>t, FinishStep DEF Raise, Terminal
  <2>3. CASE slot # Failed
    <3>1. /\ runner' \in {"tools", "ask"} /\ UNCHANGED <<events, written, writes>>
          /\ decisions' = [decisions EXCEPT ![Call] = slot]
      BY <1>6, <2>3 DEF TakeDecision
    <3>2. Asked(Call) BY <2>1, <1>t DEF Spoken
    <3>3. \A id \in CallIds : decisions'[id] # 0 => decisions[id] # 0 \/ id = Call
      <4>1. decisions \in [CallIds -> Nat] BY DEF IInv, TypeOK
      <4> QED BY <3>1, <4>1
    <3>4. DecidedAsked' BY <3>1, <3>2, <3>3, <1>q, <1>t DEF DecidedAsked
    <3>5. WrittenUntold'
      <4>1. written = {} BY <2>1, <1>t DEF GrantInv, UnderWay
      <4> QED BY <3>1, <4>1 DEF WrittenUntold
    <3> QED BY <2>1, <3>1, <3>4, <3>5, <1>q, <1>t DEF Spoken
  <2> QED BY <2>2, <2>3
<1>7. ASSUME NEW i \in tools, StartTool(i) PROVE Spoken'
  <2>1. UNCHANGED <<events, calls, decisions, written, writes>>
        /\ runner = "tools" /\ runner' = runner
    BY <1>7 DEF StartTool, streamVars, roundVars
  <2>2. DecidedAsked' /\ WrittenUntold' BY <2>1, <1>q, <1>d
  <2> QED BY <2>1, <2>2, <1>q, <1>t DEF Spoken
<1>8. ASSUME NEW i \in written, EmitLens(i) PROVE Spoken'
  <2> DEFINE x == LensWrite(i, TRUE)
             e == Lens(x.id, x.by, x.at)
  <2>1. /\ UNCHANGED <<runner, calls, decisions, writes>> /\ runner = "tools"
        /\ written' = written \ {i} /\ events' = Append(events, e)
    BY <1>8 DEF EmitLens, roundVars
  <2>2. x \in writes /\ x \in Writes /\ x.by = By(i) /\ x.at = i
    <3>1. x \in writes BY <1>t DEF WrittenUntold
    <3>2. x.by = By(i) /\ x.at = i BY DEF LensWrite, Write, By
    <3> QED BY <3>1, <3>2 DEF IInv, TypeOK
  <2>3. e \in AgentEvent /\ e.kind = "lens" /\ e.by = By(i) /\ e.at = i
    <3>1. x.id \in CallIds /\ x.by \in Nat /\ x.at \in Nat BY <2>2 DEF Writes
    <3> HIDE DEF x
    <3> QED BY <2>2, <3>1, LensFields
  <2> HIDE DEF x, e
  <2>4. /\ LensTold' /\ events' # <<>> /\ events'[Len(events')] = e
        /\ \A id : Asked(id) => Asked(id)'
        /\ \A k, j : NotTold(k, j) /\ j # i => NotTold(k, j)'
    BY <2>1, <2>2, <2>3, <1>t, Queued
  <2>5. DecidedAsked' BY <2>1, <2>4, <1>t DEF DecidedAsked
  <2>6. \A j \in written' : NotTold(By(j), j) => NotTold(By(j), j)'
    <3>1. \A j : By(j)' = By(j) BY <2>1 DEF By
    <3> QED BY <2>1, <2>4, <3>1 DEF NotTold
  <2>7. WrittenUntold' BY <2>1, <2>6, <1>t, UntoldStays
  <2> QED BY <2>1, <2>3, <2>4, <2>5, <2>7 DEF Spoken, Terminal
<1>9. ASSUME NEW i \in writing, ThreadWrites(i) PROVE Spoken'
  <2>1. /\ UNCHANGED <<events, runner, calls, place, decisions>>
        /\ writes \subseteq writes'
        /\ \/ written' = written
           \/ written' = written \cup {i} /\ LensWrite(i, TRUE) \in writes'
    BY <1>9 DEF ThreadWrites, streamVars, roundVars
  <2>2. LensTold' BY <2>1, <1>t DEF LensTold
  <2>3. DecidedAsked' BY <2>1, <1>t DEF DecidedAsked, Asked
  \* Nothing was written for this call before, hence nothing announced.
  <2>4. NotTold(By(i), i)
    <3>1. \A w \in writes : w.by = By(i) => w.at # i BY WriteUnderWay
    <3> QED BY <3>1, <1>t DEF NotTold, LensTold
  <2>5. ASSUME NEW j \in written'
        PROVE  LensWrite(j, TRUE)' \in writes' /\ NotTold(By(j), j)'
    <3>1. LensWrite(j, TRUE)' = LensWrite(j, TRUE) BY <2>1 DEF LensWrite
    <3>2. By(j)' = By(j) BY <2>1 DEF By
    <3>3. LensWrite(j, TRUE) \in writes' /\ NotTold(By(j), j)
      <4>1. CASE j \in written BY <2>1, <4>1, <1>t DEF WrittenUntold
      <4>2. CASE j \notin written BY <2>1, <2>4, <4>2
      <4> QED BY <4>1, <4>2
    <3> QED BY <2>1, <3>1, <3>2, <3>3 DEF NotTold
  <2>6. WrittenUntold' BY <2>5 DEF WrittenUntold
  <2> QED BY <2>1, <2>2, <2>3, <2>6, <1>t DEF Spoken, Asked, Call
<1>10. CASE \/ InteractRejects \/ PumpYields \/ PumpCloses \/ PumpReturns \/ ReadMessage
            \/ ReadEnd \/ ReaderCancelled \/ HostStep \/ UNCHANGED vars
  <2>1. UNCHANGED <<runner, calls, place, decisions, written, writes>>
    BY <1>10 DEF InteractRejects, PumpYields, PumpCloses, PumpReturns, ReadMessage,
       ReadEnd, ReaderCancelled, HostStep, toolVars, roundVars, vars
  <2>2. UNCHANGED events
    BY <1>10, HostMoves DEF InteractRejects, PumpYields, PumpCloses, PumpReturns,
       Transmit, ReadMessage, ReadEnd, ReaderCancelled, HostStep, streamVars, vars, IInv,
       TypeOK
  <2>3. DecidedAsked' /\ WrittenUntold' BY <2>1, <2>2, <1>q, <1>d
  <2> QED BY <2>1, <2>2, <2>3, <1>q, <1>t DEF Spoken, Asked, Call
<1> QED
  BY <1>1, <1>2, <1>3, <1>4, <1>5, <1>6, <1>7, <1>8, <1>9, <1>10, NextCases

(* One more event is a step of the turn that queues it. *)
LEMMA AppendQueues ==
  ASSUME NEW e, events' = Append(events, e), UNCHANGED <<msgs, writes>>
  PROVE  Turn!Queue(e)
BY DEF Turn!Queue

(* Every step of the sidecar is a step of the turn or changes nothing of it. *)
LEMMA TurnStep ==
  ASSUME IInv, TurnInv, [Next]_vars
  PROVE  [Turn!Next]_(Turn!turnVars)
<1>t. TypeOK /\ WaitInv /\ GrantInv /\ GateHolds /\ Heard /\ Spoken
  BY DEF IInv, TurnInv
<1>o. runner \notin {"idle", "starting", "done"} => Turn!Begun /\ ~Turn!Over
  BY <1>t DEF Spoken, Turn!Begun, Turn!Over, Terminal, Turn!Terminal
<1>u. ASSUME UNCHANGED <<msgs, events, writes>> PROVE UNCHANGED Turn!turnVars
  BY <1>u DEF Turn!turnVars
\* A last event ends the turn.
<1>e. ASSUME NEW kind \in Terminal, events' = Append(events, Signal(kind)),
             UNCHANGED <<msgs, writes>>, runner \notin {"idle", "starting", "done"}
      PROVE  Turn!Next
  <2>1. Turn!Queue(Signal(kind)) BY <1>e, AppendQueues
  <2>2. Turn!End
    BY <2>1, <1>e, <1>o DEF Turn!End, Terminal, Turn!Terminal, Signal, Event,
       Turn!Signal, Turn!Event
  <2> QED BY <2>2 DEF Turn!Next
<1>1. CASE EmitStarted
  <2>1. /\ UNCHANGED <<msgs, writes>> /\ runner = "starting"
        /\ events' = Append(events, Signal("started"))
    BY <1>1 DEF EmitStarted, OtherThanEvents, toolVars
  <2>2. Turn!Queue(Signal("started")) BY <2>1, AppendQueues
  <2>3. Turn!Start
    BY <2>1, <2>2, <1>t DEF Turn!Start, Turn!Begun, Heard, Spoken, Signal, Event,
       Turn!Signal, Turn!Event
  <2> QED BY <2>3 DEF Turn!Next
<1>2. CASE EmitText
  <2>1. /\ UNCHANGED <<msgs, writes>> /\ runner = "model"
        /\ events' = Append(events, Signal("text"))
    BY <1>2 DEF EmitText, OtherThanEvents, toolVars
  <2>2. Turn!Queue(Signal("text")) BY <2>1, AppendQueues
  <2>3. Turn!Say
    BY <2>1, <2>2, <1>o DEF Turn!Say, Signal, Event, Turn!Signal, Turn!Event
  <2> QED BY <2>3 DEF Turn!Next
<1>3. CASE EmitCompleted \/ RunFails
  <2>1. /\ UNCHANGED <<msgs, writes>> /\ runner \in {"model", "tools"}
        /\ \E kind \in Terminal : events' = Append(events, Signal(kind))
    BY <1>3 DEF EmitCompleted, RunFails, Raise, Finish, OtherThanEvents, Terminal
  <2> QED BY <2>1, <1>e
<1>4. CASE RequestApproval
  <2>1. UNCHANGED <<msgs, writes>> /\ runner = "ask"
    BY <1>4 DEF RequestApproval, Raise, Finish, OtherThanEvents, toolVars
  <2>2. CASE Raise BY <2>1, <2>2, <1>e DEF Raise, Terminal
  <2>3. CASE events' = Append(events, Request(Call))
    <3>1. Turn!Queue(Request(Call)) BY <2>1, <2>3, AppendQueues
    <3>2. Turn!Ask(Call)
      BY <2>1, <3>1, <1>o DEF Turn!Ask, Request, Event, Turn!Request, Turn!Event
    <3>3. Call \in CallIds BY <2>1, <1>t DEF TypeOK, WaitInv, Call
    <3> QED BY <3>2, <3>3 DEF Turn!Next
  <2> QED BY <1>4, <2>2, <2>3 DEF RequestApproval
<1>5. CASE TakeDecision
  <2>1. UNCHANGED <<msgs, writes>> /\ runner = "wait" /\ (Raise \/ UNCHANGED events)
    BY <1>5 DEF TakeDecision, Raise, Finish, OtherThanEvents
  <2> QED BY <2>1, <1>e, <1>u DEF Raise, Terminal
<1>6. ASSUME NEW i \in written, EmitLens(i) PROVE Turn!Next
  <2> DEFINE id == calls[i]
  <2>1. /\ UNCHANGED <<msgs, writes>> /\ runner = "tools"
        /\ events' = Append(events, Lens(id, By(i), i))
    BY <1>6 DEF EmitLens, OtherThanEvents, LensWrite, Write, By
  <2>2. Turn!Queue(Lens(id, By(i), i)) BY <2>1, AppendQueues
  <2>3. Write(id, By(i), i, TRUE) \in writes /\ NotTold(By(i), i)
    BY <1>t DEF Spoken, WrittenUntold, LensWrite, By
  <2>4. id \in CallIds /\ By(i) \in 1..Len(msgs) /\ i \in Places
    BY CallUnderWay DEF UnderWay, Approves
  <2> HIDE DEF id
  <2>5. Turn!Announce(id, By(i), i)
    BY <2>1, <2>2, <2>3, <1>o DEF Turn!Announce, Turn!EventsOf, NotTold, Write,
       Turn!Write, Lens, Event, Turn!Lens, Turn!Event
  <2> QED BY <2>4, <2>5 DEF Turn!Next
<1>7. ASSUME NEW i \in writing, ThreadWrites(i) PROVE [Turn!Next]_(Turn!turnVars)
  <2> DEFINE id == calls[i]
  <2>1. /\ UNCHANGED <<msgs, events>>
        /\ \/ UNCHANGED writes
           \/ \E whole \in BOOLEAN : writes' = writes \cup {LensWrite(i, whole)}
    BY <1>7 DEF ThreadWrites, streamVars
  <2>2. CASE \E whole \in BOOLEAN : writes' = writes \cup {LensWrite(i, whole)}
    <3>1. /\ id \in CallIds /\ By(i) # 0 /\ Approves(msgs, By(i), id) /\ i \in Places
          /\ \A w \in writes : w.by = By(i) => w.at # i /\ id \in Repeated
      BY CallUnderWay, WriteUnderWay DEF UnderWay
    <3>2. Asked(id) BY <3>1, <1>t DEF Spoken, DecidedAsked, By
    <3>3. \E j \in Turn!EventsOf("request") : events[j].id = id
      BY <3>2 DEF Asked, Turn!EventsOf
    <3>4. Turn!Approves(msgs, By(i), id) /\ By(i) \in 1..Len(msgs)
      BY <3>1 DEF Approves, Turn!Approves
    <3>5. \E whole \in BOOLEAN : writes' = writes \cup {Turn!Write(id, By(i), i, whole)}
      BY <2>2 DEF LensWrite, Write, Turn!Write, By
    <3> HIDE DEF id
    <3>6. Turn!WriteLens(id, By(i), i)
      BY <2>1, <3>1, <3>3, <3>4, <3>5 DEF Turn!WriteLens
    <3> QED BY <3>1, <3>4, <3>6 DEF Turn!Next
  <2> QED BY <2>1, <2>2, <1>u
<1>8. CASE HostStep
  <2>1. UNCHANGED <<events, writes>>
    BY <1>8, HostMoves DEF HostStep, toolVars, IInv, TypeOK
  <2>2. CASE \E m \in Message : msgs' = Append(msgs, m)
    <3>1. Turn!Hear BY <2>1, <2>2 DEF Turn!Hear, Message, Turn!Message
    <3> QED BY <3>1 DEF Turn!Next
  <2> QED BY <1>8, <2>1, <2>2, <1>u, HostAppends DEF HostStep, IInv, TypeOK
<1>9. CASE \/ InteractRejects \/ InteractAccepts \/ PumpYields \/ PumpCloses \/ PumpReturns
           \/ ModelCalls \/ ToolsReturn \/ RunnerCancelled
           \/ (\E i \in tools : StartTool(i))
           \/ ReadMessage \/ ReadEnd \/ ReaderCancelled \/ UNCHANGED vars
  <2>1. UNCHANGED <<msgs, events, writes>>
    BY <1>9 DEF InteractRejects, InteractAccepts, PumpYields, PumpCloses, PumpReturns,
       Transmit, ModelCalls, ToolsReturn, RunnerCancelled, Finish, StartTool, ReadMessage,
       ReadEnd, ReaderCancelled, toolVars, streamVars, vars
  <2> QED BY <2>1, <1>u
<1> QED
  BY <1>1, <1>2, <1>3, <1>4, <1>5, <1>6, <1>7, <1>8, <1>9, NextCases

(* The Python sidecar keeps the same contract, for any host, any batches and *)
(* any interleaving of tasks and threads: a write may land after the turn is *)
(* over, but never without a request or its approval; two writes share a     *)
(* decision only for different calls under an id that a round may repeat;    *)
(* and only complete writes are announced, each at most once.                *)
THEOREM ImplementsAgentTurn == Spec => TurnHolds
<1>1. Init => TurnInv
  BY DEF Init, StreamInit, TurnInv, Heard, Spoken, DecidedAsked, WrittenUntold,
     LensTold, Undecided
<1>2. IInv /\ TurnInv /\ [Next]_vars => TurnInv'
  BY HeardStep, SpokenStep DEF TurnInv
<1>3. Init => Turn!Init
  BY DEF Init, StreamInit, Turn!Init
<1>4. IInv /\ TurnInv /\ [Next]_vars => [Turn!Next]_(Turn!turnVars)
  BY TurnStep
<1> QED BY <1>1, <1>2, <1>3, <1>4, Invariance, PTL DEF Spec, TurnHolds, Turn!Spec
=============================================================================
