-------------------------- MODULE GoSidecar_proofs --------------------------
(***************************************************************************)
(* Proofs about GoSidecar, for every set of calls, host, capacity and      *)
(* bound: its type invariant, the approval gate, that nothing is sent on   *)
(* the closed channel, that a bridge closed in good order has carried a    *)
(* terminal event, and that the sidecar implements AgentTurn.              *)
(***************************************************************************)
EXTENDS GoSidecar, InteractStream_proofs, FiniteSetTheorems

(* The runner is inside WaitForDecision, from the registration to its        *)
(* deferred delete; inside the loop over the requests.                       *)
Waiting == {"wait", "leave", "giveup"}
Asking == {"ask", "register"} \cup Waiting

(* The decision that the request at place i is answered from. *)
By(i) == decisions[requests[i]]

(***************************************************************************)
(* The map of the bridge and the runner agree: the only id in it is that   *)
(* of the call the runner waits for, and so is that of the decision the    *)
(* reader has put in the channel, although the reader knows only the map.  *)
(***************************************************************************)
WaitInv ==
  /\ runner \in Asking => place \in DOMAIN requests
  /\ runner = "announce" => grants # <<>>
  /\ pending # {} => runner \in Waiting /\ pending = {Call}
  /\ slot # 0 => runner \in Waiting /\ slot \in 1..read /\ msgs[slot].id = Call

(***************************************************************************)
(* What makes the gate inductive. The requests of a loop share an id only  *)
(* if batches may, and an id has a decision there only from a message that *)
(* names it.                                                               *)
(***************************************************************************)
LoopInv ==
  /\ DOMAIN requests \subseteq Places
  /\ \A i, j \in DOMAIN requests :
       i # j /\ requests[i] = requests[j] => requests[i] \in Repeated
  /\ \A id \in CallIds : decisions[id] # 0 =>
       decisions[id] \in 1..read /\ msgs[decisions[id]].id = id
  /\ runner \in {"register", "wait"} => decisions[Call] = 0

(* Approved responses are collected, and then used, in the order of their    *)
(* requests, each of which has a decision that approves it.                  *)
GrantInv ==
  /\ \A k \in DOMAIN grants :
       /\ grants[k] \in DOMAIN requests
       /\ By(grants[k]) <= read /\ Approves(msgs, By(grants[k]), requests[grants[k]])
       /\ runner \in {"ask", "register", "wait"} => grants[k] < place
       /\ runner = "leave" => grants[k] <= place
  /\ \A j, k \in DOMAIN grants : j < k => grants[j] < grants[k]

(* A write was made under a decision that came before the one in the channel.*)
(* If that is a decision of the last loop, the loop has ended, and the write *)
(* is for a request before all that are still to be used, except that the    *)
(* first of these may be the one just written for.                           *)
WriteInv ==
  \A w \in writes :
    /\ slot # 0 => w.by < slot
    /\ w.by = decisions[w.id] =>
         /\ runner \notin Asking
         /\ w.at \in DOMAIN requests /\ requests[w.at] = w.id
         /\ \A k \in DOMAIN grants :
              \/ w.at < grants[k]
              \/ runner = "announce" /\ k = 1 /\ w = LensWrite(grants[1], TRUE)

IInv ==
  /\ TypeOK /\ AnswersAnEvent /\ WaitInv
  /\ LoopInv /\ GrantInv /\ WriteInv /\ GateHolds

(* The actions of Next, one by one: the case split of the step lemmas. *)
LEMMA NextCases ==
  ASSUME [Next]_vars
  PROVE  \/ InteractRejects \/ InteractAccepts \/ StreamCancelled
         \/ PumpSends \/ PumpFails \/ PumpEnds
         \/ EmitStarted \/ AgentInitFails \/ TurnLoop \/ RunTool \/ EmitLens \/ EmitText
         \/ RunEnds \/ RunFails \/ AnswerAgain \/ EmitRequest \/ Register \/ TakeDecision \/ Leave
         \/ EmitError \/ EmitCompleted \/ EmitWaits \/ RunnerCloses
         \/ ReadMessage \/ ReadEnd \/ ReaderCloses \/ ReaderCancels
         \/ HostStep \/ UNCHANGED vars
BY DEF Next, RunnerNext, ReaderNext, PumpNext

(* What is left of a batch is a sequence of calls, no longer than the batch, *)
(* and repeats an id only if the batch does.                                 *)
LEMMA UnprocessedType ==
  ASSUME NEW batch \in Batches, NEW rest, Unprocessed(batch, rest)
  PROVE  /\ rest \in Seq(CallIds)
         /\ DOMAIN rest \subseteq Places
         /\ \A i, j \in DOMAIN rest : i # j /\ rest[i] = rest[j] => rest[i] \in Repeated
<1> DEFINE kept == {i \in DOMAIN batch : batch[i] \notin processed}
<1>0. batch \in Seq(CallIds) /\ DOMAIN batch = 1..Len(batch) /\ Len(batch) \in Nat
  <2>1. batch \in Seq(CallIds) BY GoAssumption
  <2> QED BY <2>1
<1>1. Cardinality(kept) \in Nat /\ Cardinality(kept) <= Len(batch)
  <2>1. IsFiniteSet(1..Len(batch)) /\ Cardinality(1..Len(batch)) = Len(batch)
    BY <1>0, FS_Interval
  <2>2. kept \in SUBSET (1..Len(batch)) BY <1>0
  <2> HIDE DEF kept
  <2> QED BY <2>1, <2>2, FS_Subset, FS_CardinalityType
<1>2. PICK from \in [1..Cardinality(kept) -> kept] :
        /\ \A j, k \in DOMAIN from : j < k => from[j] < from[k]
        /\ rest = [k \in DOMAIN from |-> batch[from[k]]]
  BY Zenon DEF Unprocessed
<1>3. \A k \in 1..Cardinality(kept) : batch[from[k]] \in CallIds
  <2>1. \A k \in 1..Cardinality(kept) : from[k] \in DOMAIN batch OBVIOUS
  <2> QED BY <1>0, <2>1
<1>4. rest \in [1..Cardinality(kept) -> CallIds]
  BY <1>2, <1>3, Zenon
<1>5. \A n \in Nat : rest \in [1..n -> CallIds] => rest \in Seq(CallIds)
  OBVIOUS
<1>6. rest \in Seq(CallIds) BY <1>1, <1>4, <1>5, Zenon
<1>7. DOMAIN rest = 1..Cardinality(kept) BY <1>4
<1>8. DOMAIN rest \subseteq Places
  <2>1. DOMAIN rest \subseteq DOMAIN batch
    <3> HIDE DEF kept
    <3> QED BY <1>0, <1>1, <1>7
  <2> QED BY <2>1 DEF Places
<1>9. ASSUME NEW i \in DOMAIN rest, NEW j \in DOMAIN rest, i # j, rest[i] = rest[j]
      PROVE  rest[i] \in Repeated
  <2>1. from[i] \in DOMAIN batch /\ from[j] \in DOMAIN batch BY <1>7
  <2>2. from[i] # from[j]
    <3>1. i < j \/ j < i
      <4>1. i \in Nat /\ j \in Nat
        <5> HIDE DEF kept
        <5> QED BY <1>1, <1>7
      <4> QED BY <4>1, <1>9
    <3>2. from[i] < from[j] \/ from[j] < from[i]
      <4> HIDE DEF kept
      <4>1. DOMAIN from = DOMAIN rest BY <1>7
      <4> QED BY <1>2, <3>1, <4>1
    <3> QED BY <1>0, <2>1, <3>2
  <2>3. rest[i] = batch[from[i]] /\ rest[j] = batch[from[j]]
    BY <1>2, <1>4, Zenon
  <2>4. batch[from[i]] = batch[from[j]] /\ batch[from[i]] \in CallIds
    BY <1>9, <2>3, <1>3, <1>7
  <2> HIDE DEF kept
  <2> QED BY <2>1, <2>2, <2>3, <2>4 DEF Repeated
<1> QED BY <1>6, <1>8, <1>9

(* Emit leaves more events or the same ones. *)
LEMMA EmitTypes ==
  ASSUME StreamTypeOK, NEW e \in AgentEvent, EmitOk(e) \/ EmitErr
  PROVE  events' \in Seq(AgentEvent) /\ Len(events) <= Len(events')
<1>1. events \in Seq(AgentEvent) BY DEF StreamTypeOK
<1>2. CASE EmitOk(e) BY <1>1, <1>2 DEF EmitOk
<1>3. CASE EmitErr BY <1>1, <1>3 DEF EmitErr
<1> QED BY <1>2, <1>3

(* Every step keeps the types. *)
LEMMA TypeStep ==
  ASSUME IInv, [Next]_vars
  PROVE  TypeOK'
<1>i. TypeOK /\ AnswersAnEvent /\ WaitInv /\ GrantInv BY DEF IInv
<1> USE <1>i, NoCallAssumption, StreamAssumption, GoAssumption
        DEF TypeOK, agentVars, loopVars, slotVars
<1>t. StreamTypeOK OBVIOUS
<1>a. runner \in Asking => Call \in CallIds
  BY DEF Call, WaitInv
<1>g. grants # <<>> => /\ Head(grants) \in DOMAIN requests /\ Tail(grants) \in Seq(Nat)
                      /\ Head(grants) \in Nat
                      /\ \A whole \in BOOLEAN : LensWrite(Head(grants), whole) \in Writes
  <2> SUFFICES ASSUME grants # <<>> PROVE
                      /\ Head(grants) \in DOMAIN requests /\ Tail(grants) \in Seq(Nat)
                      /\ Head(grants) \in Nat
                      /\ \A whole \in BOOLEAN : LensWrite(Head(grants), whole) \in Writes
    OBVIOUS
  <2>1. 1 \in DOMAIN grants /\ Head(grants) = grants[1] /\ Tail(grants) \in Seq(Nat)
        /\ Head(grants) \in Nat
    BY QueueHead
  <2>2. Head(grants) \in DOMAIN requests BY <2>1 DEF GrantInv
  <2>3. requests[Head(grants)] \in CallIds BY <2>2
  <2>4. decisions[requests[Head(grants)]] \in Nat BY <2>3
  <2> QED BY <2>1, <2>2, <2>3, <2>4 DEF LensWrite, Write, Writes
\* A step that adds at most an event and touches nothing else of the streams.
<1>m. ASSUME NEW e \in AgentEvent, EmitOk(e) \/ EmitErr, OtherThanEmit
      PROVE  StreamTypeOK' /\ mu' \in {"free", "runner"}
  <2>1. events' \in Seq(AgentEvent) /\ Len(events) <= Len(events')
    BY <1>m, EmitTypes
  <2> QED BY <1>m, <2>1 DEF OtherThanEmit, StreamTypeOK, EmitOk, EmitErr
<1>u. UNCHANGED streamVars => StreamTypeOK'
  BY DEF streamVars, StreamTypeOK
<1>1. CASE InteractRejects
  BY <1>1 DEF InteractRejects, StreamTypeOK
<1>2. CASE InteractAccepts
  BY <1>2 DEF InteractAccepts, StreamTypeOK
<1>3. CASE StreamCancelled
  BY <1>3, <1>u DEF StreamCancelled
<1>4. CASE PumpSends \/ PumpFails \/ PumpEnds
  <2>1. /\ sent' \in {sent, sent + 1} /\ (sent' = sent + 1 => sent < Len(events))
        /\ response' \in {response, "ended"}
        /\ UNCHANGED <<token, msgs, read, events, delivered, link, host>>
    BY <1>4 DEF PumpSends, PumpFails, PumpEnds, Transmit
  <2>2. StreamTypeOK' BY <2>1 DEF StreamTypeOK
  <2>3. CASE PumpSends BY <2>2, <2>3 DEF PumpSends
  <2>4. CASE PumpFails BY <2>2, <2>4 DEF PumpFails
  <2>5. CASE PumpEnds BY <2>2, <2>5 DEF PumpEnds
  <2> QED BY <1>4, <2>3, <2>4, <2>5
<1>5. CASE EmitStarted \/ EmitText \/ EmitError \/ EmitCompleted
  <2>1. \E kind \in EventKinds : EmitOk(Signal(kind)) \/ EmitErr
    BY <1>5 DEF EmitStarted, EmitText, EmitError, EmitCompleted, EmitThen, EmitAnyway,
       EventKinds
  <2>2. OtherThanEmit /\ UNCHANGED agentVars
    BY <1>5 DEF EmitStarted, EmitText, EmitError, EmitCompleted
  <2>3. StreamTypeOK' /\ mu' \in {"free", "runner"}
    BY <2>1, <2>2, <1>m, SignalFields
  <2> QED BY <1>5, <2>2, <2>3 DEF OtherThanEmit, EmitStarted, EmitText, EmitError,
             EmitCompleted, EmitThen, EmitAnyway, Return
<1>6. CASE AgentInitFails \/ TurnLoop \/ RunFails
  BY <1>6, <1>u DEF AgentInitFails, TurnLoop, RunFails, OtherThanRunner, Return
<1>7. CASE RunTool
  <2>1. OtherThanRunner /\ UNCHANGED <<loopVars, round, processed, slotVars>>
    BY <1>7 DEF RunTool
  <2>2. grants # <<>> BY <1>7 DEF RunTool
  <2>3. writes' \subseteq Writes
    <3>1. \E whole \in BOOLEAN :
            writes' \subseteq writes \cup {LensWrite(Head(grants), whole)}
      BY <1>7 DEF RunTool
    <3> QED BY <2>2, <3>1, <1>g
  <2>4. runner' \in {"run", "announce"} /\ grants' \in {grants, Tail(grants)}
    BY <1>7, Zenon DEF RunTool
  <2>5. grants' \in Seq(Nat) BY <2>2, <2>4, <1>g
  <2> QED BY <2>1, <2>3, <2>4, <2>5, <1>u DEF OtherThanRunner
<1>8. CASE EmitLens
  <2> DEFINE w == LensWrite(Head(grants), TRUE)
             e == Lens(w.id, w.by, w.at)
  <2>1. grants # <<>> BY <1>8 DEF EmitLens, WaitInv
  <2>2. e \in AgentEvent
    <3>1. w \in Writes BY <2>1, <1>g
    <3>2. w.id \in CallIds /\ w.by \in Nat /\ w.at \in Nat
      BY <3>1 DEF Writes
    <3> HIDE DEF w
    <3> QED BY <3>2, LensFields
  <2>3. (EmitOk(e) \/ EmitErr) /\ OtherThanEmit
        /\ grants' = Tail(grants) /\ UNCHANGED <<loopVars, round, processed, writes>>
    BY <1>8 DEF EmitLens, EmitAnyway
  <2>4. StreamTypeOK' /\ mu' \in {"free", "runner"}
    <3> HIDE DEF w, e
    <3> QED BY <2>2, <2>3, <1>m
  <2>5. runner' = "run" BY <1>8 DEF EmitLens, EmitAnyway
  <2> QED BY <2>1, <2>3, <2>4, <2>5, <1>g DEF OtherThanEmit
<1>9. CASE RunEnds
  <2>1. requests' \in Seq(CallIds)
    BY <1>9, UnprocessedType, EmptySeq DEF RunEnds
  <2>2. runner' \in {"complete", "ask"} /\ round' \in 0..MaxRounds
    BY <1>9 DEF RunEnds
  <2>3. place' \in Nat /\ decisions' \in [CallIds -> Nat]
    BY <1>9 DEF RunEnds, Undecided
  <2> QED BY <1>9, <2>1, <2>2, <2>3, <1>u DEF RunEnds, OtherThanRunner
<1>10. CASE EmitRequest
  <2>1. Call \in CallIds BY <1>10, <1>a DEF EmitRequest, Asking
  <2>2. Request(Call) \in AgentEvent BY <2>1, RequestFields
  <2>3. EmitOk(Request(Call)) \/ EmitErr
    BY <1>10 DEF EmitRequest, EmitThen
  <2>4. StreamTypeOK' /\ mu' \in {"free", "runner"}
    BY <1>10, <2>2, <2>3, <1>m DEF EmitRequest
  <2> QED BY <1>10, <2>1, <2>4 DEF EmitRequest, EmitThen, Return, OtherThanEmit
<1>20. CASE AnswerAgain
  <2>1. grants' \in Seq(Nat)
    <3>1. Append(grants, place) \in Seq(Nat) BY AppendProperties
    <3>2. grants' \in {grants, Append(grants, place)} BY <1>20 DEF AnswerAgain
    <3> QED BY <3>1, <3>2
  <2>2. place' \in Nat /\ runner' \in {"loop", "ask"}
    BY <1>20 DEF AnswerAgain, NextRequest
  <2> QED BY <1>20, <2>1, <2>2, <1>u DEF AnswerAgain, OtherThanRunner
<1>11. CASE Register
  <2>1. Call \in CallIds BY <1>11, <1>a DEF Register, Asking
  <2>2. pending' \subseteq CallIds /\ slot' \in Nat /\ slotOpen' \in BOOLEAN
        /\ runner' \in {"closing", "wait"}
    <3>1. CASE closed # "no" \/ Call \in pending
      BY <1>11, <3>1 DEF Register, Return
    <3>2. CASE ~(closed # "no" \/ Call \in pending)
      BY <1>11, <2>1, <3>2 DEF Register
    <3> QED BY <3>1, <3>2
  <2> QED BY <1>11, <2>2, <1>u DEF Register, OtherThanRunner
<1>12. CASE TakeDecision
  <2>1. Call \in CallIds BY <1>12, <1>a DEF TakeDecision, Waiting, Asking
  <2>2. grants' \in Seq(Nat)
    <3>1. Append(grants, place) \in Seq(Nat) BY AppendProperties
    <3>2. grants' \in {grants, Append(grants, place)} BY <1>12 DEF TakeDecision
    <3> QED BY <3>1, <3>2
  <2>3. decisions' \in [CallIds -> Nat]
    BY <1>12, <2>1 DEF TakeDecision
  <2>4. runner' \in {"giveup", "leave"} /\ slot' \in Nat
    BY <1>12 DEF TakeDecision
  <2> QED BY <1>12, <2>2, <2>3, <2>4, <1>u DEF TakeDecision, OtherThanRunner
<1>13. CASE Leave
  <2>1. place' \in Nat BY <1>13 DEF Leave, NextRequest
  <2>2. runner' \in {"closing", "loop", "ask"} BY <1>13 DEF Leave, NextRequest, Return
  <2> QED BY <1>13, <2>1, <2>2, <1>u DEF Leave, OtherThanRunner
<1>14. CASE EmitWaits
  BY <1>14, <1>u DEF EmitWaits
<1>15. CASE RunnerCloses \/ ReaderCloses
  <2>1. UNCHANGED <<streamVars, agentVars, mu, cancelled, pump, slot>>
    BY <1>15 DEF RunnerCloses, ReaderCloses, Close
  <2>2. /\ closed' \in {closed, "clean", "error"} /\ pending' \subseteq CallIds
        /\ slotOpen' \in BOOLEAN
    BY <1>15 DEF RunnerCloses, ReaderCloses, Close
  <2>3. runner' \in {runner, "done"} /\ reader' \in {reader, "cancelling"}
    BY <1>15 DEF RunnerCloses, ReaderCloses
  <2> QED BY <2>1, <2>2, <2>3, <1>u
<1>16. CASE ReadMessage
  <2>1. StreamTypeOK' BY <1>16 DEF ReadMessage, StreamTypeOK
  <2>2. slot' \in Nat /\ reader' \in {reader, "closing"}
    BY <1>16 DEF ReadMessage, StreamTypeOK
  <2> QED BY <1>16, <2>1, <2>2 DEF ReadMessage
<1>17. CASE ReadEnd \/ ReaderCancels
  <2>1. StreamTypeOK' BY <1>17, <1>u DEF ReadEnd, ReaderCancels
  <2>2. UNCHANGED <<runner, agentVars, mu, closed, slotVars, pump>>
    BY <1>17 DEF ReadEnd, ReaderCancels
  <2>3. reader' \in {"closing", "stopped"} /\ cancelled' \in BOOLEAN
    BY <1>17 DEF ReadEnd, ReaderCancels
  <2> QED BY <2>1, <2>2, <2>3
<1>18. CASE HostStep
  <2>1. StreamTypeOK' BY <1>18, HostMoves DEF HostStep
  <2> QED BY <1>18, <2>1 DEF HostStep
<1>19. CASE UNCHANGED vars
  BY <1>19, <1>u DEF vars
<1> QED
  BY <1>1, <1>2, <1>3, <1>4, <1>5, <1>6, <1>7, <1>8, <1>9, <1>10, <1>11, <1>12,
     <1>13, <1>14, <1>15, <1>16, <1>17, <1>18, <1>19, <1>20, NextCases

-----------------------------------------------------------------------------
(* Every step keeps map, channel and runner in agreement: only Register puts *)
(* an id in the map, and the runner leaves the wait only by deleting it.     *)
LEMMA WaitStep ==
  ASSUME IInv, [Next]_vars
  PROVE  WaitInv'
<1>i. TypeOK /\ AnswersAnEvent /\ WaitInv BY DEF IInv
<1> USE <1>i DEF TypeOK, WaitInv, Waiting, Asking, Call, agentVars, loopVars, slotVars
<1>1. CASE \/ InteractRejects \/ InteractAccepts \/ StreamCancelled
           \/ PumpSends \/ PumpFails \/ PumpEnds
  <2>1. UNCHANGED <<msgs, requests, place, grants, pending, slot>>
    BY <1>1 DEF InteractRejects, InteractAccepts, StreamCancelled, PumpSends, PumpFails,
       PumpEnds, Transmit, streamVars
  <2>2. runner' = runner \/ (runner = "idle" /\ runner' = "started")
    BY <1>1 DEF InteractRejects, InteractAccepts, StreamCancelled, PumpSends, PumpFails,
       PumpEnds, Transmit, streamVars
  <2>3. read' = read \/ read' = read + 1
    BY <1>1 DEF InteractRejects, InteractAccepts, StreamCancelled, PumpSends, PumpFails,
       PumpEnds, Transmit, streamVars
  <2>4. read \in Nat BY DEF StreamTypeOK
  <2>5. slot # 0 => slot \in 1..read' BY <2>3, <2>4
  <2> QED BY <2>1, <2>2, <2>5
<1>2. CASE \/ EmitStarted \/ AgentInitFails \/ TurnLoop \/ EmitText \/ RunFails
           \/ EmitError \/ EmitCompleted \/ EmitWaits
  <2>1. UNCHANGED <<msgs, read, requests, place, grants, pending, slot>>
    BY <1>2 DEF EmitStarted, AgentInitFails, TurnLoop, EmitText, RunFails, EmitError,
       EmitCompleted, EmitWaits, OtherThanEmit, OtherThanRunner, streamVars
  <2>2. \/ runner' = runner
        \/ /\ runner \notin Waiting
           /\ runner' \in {"loop", "fail", "closing", "run"}
    BY <1>2 DEF EmitStarted, AgentInitFails, TurnLoop, EmitText, RunFails, EmitError,
       EmitCompleted, EmitWaits, EmitThen, EmitAnyway, Return
  <2> QED BY <2>1, <2>2
<1>3. CASE RunTool
  <2>1. UNCHANGED <<msgs, read, requests, place, pending, slot>> /\ runner = "run"
    BY <1>3 DEF RunTool, OtherThanRunner, streamVars
  <2>2. \/ runner' = "run"
        \/ runner' = "announce" /\ grants' = grants /\ grants # <<>>
    BY <1>3 DEF RunTool
  <2> QED BY <2>1, <2>2
<1>4. CASE EmitLens
  BY <1>4 DEF EmitLens, EmitAnyway, OtherThanEmit
<1>5. CASE RunEnds
  <2>1. runner' = "ask" => requests' # <<>> /\ requests' \in Seq(CallIds)
    BY <1>5, UnprocessedType DEF RunEnds
  <2>2. runner' = "ask" => 1 \in DOMAIN requests' BY <2>1, EmptySeq
  <2> QED BY <1>5, <2>2 DEF RunEnds, OtherThanRunner, streamVars
<1>6. CASE EmitRequest
  BY <1>6 DEF EmitRequest, EmitThen, Return, OtherThanEmit
<1>7. CASE Register
  BY <1>7 DEF Register, Return, OtherThanRunner, streamVars
<1>8. CASE TakeDecision
  BY <1>8 DEF TakeDecision, OtherThanRunner, streamVars
<1>9. CASE Leave \/ AnswerAgain
  <2>1. UNCHANGED <<msgs, read, requests>> /\ slot' = 0 /\ pending' = {}
    BY <1>9 DEF Leave, AnswerAgain, OtherThanRunner, streamVars
  <2>2. \/ runner' \in {"closing", "loop"}
        \/ runner' = "ask" /\ place' = place + 1 /\ place # Len(requests)
    BY <1>9 DEF Leave, AnswerAgain, NextRequest, Return
  <2>3. place \in 1..Len(requests) BY <1>9 DEF Leave, AnswerAgain
  <2> QED BY <2>1, <2>2, <2>3
<1>10. CASE RunnerCloses \/ ReaderCloses
  <2>1. UNCHANGED <<msgs, read, requests, place, grants, slot>> /\ pending' \in {pending, {}}
    BY <1>10 DEF RunnerCloses, ReaderCloses, Close, streamVars
  <2>2. runner' = runner \/ (runner = "closing" /\ runner' = "done")
    BY <1>10 DEF RunnerCloses, ReaderCloses, streamVars
  <2> QED BY <2>1, <2>2
<1>11. CASE ReadMessage
  \* The message named the one id in the map.
  <2>1. UNCHANGED <<msgs, runner, requests, place, grants, pending>> /\ read' = read + 1
    BY <1>11 DEF ReadMessage
  <2>2. \/ slot' = slot
        \/ slot' = read + 1 /\ msgs[read + 1].id \in pending
    BY <1>11 DEF ReadMessage
  <2>3. read \in Nat BY DEF StreamTypeOK
  <2>4. slot' # 0 => runner \in Waiting /\ slot' \in 1..read' /\ msgs[slot'].id = Call
    BY <2>1, <2>2, <2>3
  <2> QED BY <2>1, <2>4
<1>12. CASE ReadEnd \/ ReaderCancels \/ UNCHANGED vars
  BY <1>12 DEF ReadEnd, ReaderCancels, streamVars, vars
<1>13. CASE HostStep
  <2>1. UNCHANGED <<runner, requests, place, grants, pending, slot, read>>
        /\ \A k \in 1..Len(msgs) : msgs'[k] = msgs[k]
    BY <1>13, HostMoves DEF HostStep
  <2>2. slot # 0 => slot \in 1..Len(msgs) BY DEF StreamTypeOK
  <2> QED BY <2>1, <2>2
<1> QED
  BY <1>1, <1>2, <1>3, <1>4, <1>5, <1>6, <1>7, <1>8, <1>9, <1>10, <1>11, <1>12,
     <1>13, NextCases

(* Only RunTool writes. *)
LEMMA WritesOnlyInRunTool ==
  ASSUME [Next]_vars, ~RunTool
  PROVE  UNCHANGED writes
BY NextCases DEF InteractRejects, InteractAccepts, StreamCancelled, PumpSends, PumpFails,
   PumpEnds, EmitStarted, AgentInitFails, TurnLoop, EmitLens, EmitText, RunEnds, RunFails,
   AnswerAgain, EmitRequest, Register, TakeDecision, Leave, EmitError, EmitCompleted, EmitWaits,
   RunnerCloses, ReadMessage, ReadEnd, ReaderCloses, ReaderCancels, HostStep, agentVars,
   vars

(* The request stream only grows, and what was read stays read. *)
LEMMA LogGrows ==
  ASSUME TypeOK, AnswersAnEvent, [Next]_vars
  PROVE  /\ read <= read'
         /\ \A k \in 1..Len(msgs) : k \in 1..Len(msgs') /\ msgs'[k] = msgs[k]
<1> USE DEF TypeOK, StreamTypeOK
<1>1. CASE HostStep
  BY <1>1, HostMoves DEF HostStep
<1>2. CASE ~HostStep
  <2>1. UNCHANGED msgs /\ read' \in {read, read + 1}
    BY <1>2, NextCases DEF InteractRejects, InteractAccepts, StreamCancelled, PumpSends,
       PumpFails, PumpEnds, Transmit, EmitStarted, AgentInitFails, TurnLoop, RunTool,
       EmitLens, EmitText, RunEnds, RunFails, AnswerAgain, EmitRequest, Register, TakeDecision, Leave,
       EmitError, EmitCompleted, EmitWaits, RunnerCloses, ReadMessage, ReadEnd,
       ReaderCloses, ReaderCancels, OtherThanEmit, OtherThanRunner, streamVars, vars
  <2> QED BY <2>1
<1> QED BY <1>1, <1>2

(* What the steps not about the loop or its approvals leave alone. *)
LEMMA LoopElsewhere ==
  ASSUME [Next]_vars, ~RunTool, ~EmitLens, ~RunEnds, ~AnswerAgain, ~EmitRequest, ~Register,
         ~TakeDecision, ~Leave
  PROVE  /\ UNCHANGED <<loopVars, grants, writes>>
         /\ runner' \in Asking \cup {"announce"} => runner' = runner
<1> USE DEF agentVars, Asking, Waiting
<1>1. CASE \/ EmitStarted \/ AgentInitFails \/ TurnLoop \/ EmitText
           \/ RunFails \/ EmitError \/ EmitCompleted \/ RunnerCloses
  BY <1>1 DEF EmitStarted, AgentInitFails, TurnLoop, EmitText,
     RunFails, EmitError, EmitCompleted, RunnerCloses, EmitThen, EmitAnyway, Return
<1>2. CASE \/ InteractRejects \/ InteractAccepts \/ StreamCancelled \/ PumpSends
           \/ PumpFails \/ PumpEnds \/ EmitWaits \/ ReadMessage \/ ReadEnd
           \/ ReaderCloses \/ ReaderCancels \/ HostStep \/ UNCHANGED vars
  BY <1>2 DEF InteractRejects, InteractAccepts, StreamCancelled, PumpSends, PumpFails,
     PumpEnds, EmitWaits, ReadMessage, ReadEnd, ReaderCloses, ReaderCancels, HostStep, vars
<1> QED BY <1>1, <1>2, NextCases

LEMMA SlotElsewhere ==
  ASSUME [Next]_vars, ~ReadMessage
  PROVE  slot' = slot \/ slot' = 0
BY NextCases DEF InteractRejects, InteractAccepts, StreamCancelled, PumpSends, PumpFails,
   PumpEnds, EmitStarted, AgentInitFails, TurnLoop, RunTool, EmitLens, EmitText, RunEnds,
   RunFails, AnswerAgain, EmitRequest, Register, TakeDecision, Leave, EmitError, EmitCompleted,
   EmitWaits, RunnerCloses, ReadEnd, ReaderCloses, ReaderCancels, HostStep, OtherThanEmit,
   Close, slotVars, vars

(* The first of the approved responses, where a run is about to use it: its  *)
(* decision approves it, and no write is for the same request under that.    *)
LEMMA FirstGrant ==
  ASSUME IInv, grants # <<>>
  PROVE  LET a == grants[1] IN
         /\ 1 \in DOMAIN grants /\ Head(grants) = a
         /\ a \in Nat /\ a \in DOMAIN requests /\ a \in Places
         /\ requests[a] \in CallIds /\ By(a) \in Nat \ {0}
         /\ By(a) <= read /\ Approves(msgs, By(a), requests[a])
         /\ Tail(grants) \in Seq(Nat)
         /\ \A k \in DOMAIN Tail(grants) :
              k \in Nat \ {0} /\ k + 1 \in DOMAIN grants /\ Tail(grants)[k] = grants[k + 1]
         /\ \A k \in DOMAIN grants : k # 1 => a < grants[k]
         /\ runner = "run" => \A w \in writes : w.by = By(a) =>
              w.id = requests[a] /\ w.at \in Nat /\ w.at # a /\ requests[a] \in Repeated
<1> DEFINE a == grants[1]
<1>1. grants \in Seq(Nat) /\ requests \in Seq(CallIds) /\ decisions \in [CallIds -> Nat]
  BY DEF IInv, TypeOK
<1>2. /\ 1 \in DOMAIN grants /\ Head(grants) = a /\ a \in Nat /\ Tail(grants) \in Seq(Nat)
      /\ \A k \in DOMAIN Tail(grants) : k + 1 \in DOMAIN grants /\ Tail(grants)[k] = grants[k + 1]
  BY <1>1, QueueHead
<1>3. \A k \in DOMAIN Tail(grants) : k \in Nat \ {0} BY <1>2
<1>4. a \in DOMAIN requests /\ By(a) <= read /\ Approves(msgs, By(a), requests[a])
  BY <1>2 DEF IInv, GrantInv
<1>5. requests[a] \in CallIds BY <1>1, <1>4
<1>6. By(a) \in Nat \ {0} BY <1>4 DEF Approves
<1>7. a \in Places BY <1>4 DEF IInv, LoopInv
<1>8. \A k \in DOMAIN grants : k # 1 => a < grants[k]
  <2>1. \A k \in DOMAIN grants : k # 1 => 1 < k BY <1>1
  <2> QED BY <1>2, <2>1 DEF IInv, GrantInv
<1>9. ASSUME runner = "run", NEW w \in writes, w.by = By(a)
      PROVE  w.id = requests[a] /\ w.at \in Nat /\ w.at # a /\ requests[a] \in Repeated
  <2>1. w.id = requests[a]
    BY <1>4, <1>9 DEF IInv, GateHolds, Approves
  <2>2. w.by = decisions[w.id] BY <2>1, <1>9 DEF By
  <2>3. /\ w.at \in DOMAIN requests /\ requests[w.at] = w.id
        /\ \A k \in DOMAIN grants : w.at < grants[k]
    BY <2>2, <1>9 DEF IInv, WriteInv
  <2>4. w.at \in Nat /\ w.at # a BY <1>1, <1>2, <2>3
  <2>5. requests[a] \in Repeated
    BY <2>1, <2>3, <2>4, <1>4 DEF IInv, LoopInv
  <2> QED BY <2>1, <2>4, <2>5
<1> QED BY <1>2, <1>3, <1>4, <1>5, <1>6, <1>7, <1>8, <1>9

(* Every step keeps what the loop knows of its requests. *)
LEMMA LoopStep ==
  ASSUME IInv, [Next]_vars
  PROVE  LoopInv'
<1>r. /\ read \in Nat /\ read' \in Nat /\ read <= read' /\ read <= Len(msgs) /\ Len(msgs) \in Nat
      /\ \A k \in 1..read : msgs'[k] = msgs[k]
  <2>1. /\ read \in Nat /\ read' \in Nat /\ read <= Len(msgs) /\ Len(msgs) \in Nat
    BY TypeStep DEF IInv, TypeOK, StreamTypeOK
  <2>2. read <= read' /\ \A k \in 1..Len(msgs) : msgs'[k] = msgs[k]
    BY LogGrows DEF IInv
  <2> QED BY <2>1, <2>2
<1>d. decisions \in [CallIds -> Nat] /\ requests \in Seq(CallIds)
  BY DEF IInv, TypeOK
\* A decision that has been read stays what it is.
<1>k. UNCHANGED decisions =>
        \A id \in CallIds : decisions'[id] # 0 =>
          decisions'[id] \in 1..read' /\ msgs'[decisions'[id]].id = id
  <2> SUFFICES ASSUME UNCHANGED decisions, NEW id \in CallIds, decisions[id] # 0
               PROVE  decisions[id] \in 1..read' /\ msgs'[decisions[id]].id = id
    OBVIOUS
  <2>1. decisions[id] \in 1..read /\ msgs[decisions[id]].id = id BY DEF IInv, LoopInv
  <2> QED BY <2>1, <1>r
<1>1. CASE RunEnds
  <2>1. /\ runner' \in {"complete", "ask"} /\ decisions' = Undecided
        /\ requests' = <<>> \/ \E batch \in Batches : Unprocessed(batch, requests')
    BY <1>1 DEF RunEnds
  <2>2. /\ DOMAIN requests' \subseteq Places
        /\ \A i, j \in DOMAIN requests' :
             i # j /\ requests'[i] = requests'[j] => requests'[i] \in Repeated
    <3>1. CASE requests' = <<>> BY <3>1
    <3>2. CASE \E batch \in Batches : Unprocessed(batch, requests')
      BY <3>2, UnprocessedType
    <3> QED BY <2>1, <3>1, <3>2
  <2> QED BY <2>1, <2>2 DEF LoopInv, Undecided
<1>2. CASE TakeDecision
  <2>1. UNCHANGED <<requests, place>> /\ runner = "wait" /\ runner' \in {"giveup", "leave"}
        /\ \/ UNCHANGED decisions
           \/ slot # 0 /\ decisions' = [decisions EXCEPT ![Call] = slot]
    BY <1>2 DEF TakeDecision
  <2>2. UNCHANGED <<msgs, read>> BY <1>2 DEF TakeDecision, OtherThanRunner, streamVars
  <2>3. CASE slot # 0 /\ decisions' = [decisions EXCEPT ![Call] = slot]
    <3>1. slot \in 1..read /\ msgs[slot].id = Call BY <2>3 DEF IInv, WaitInv
    <3>2. \A id \in CallIds : decisions'[id] = IF id = Call THEN slot ELSE decisions[id]
      BY <2>3, <1>d
    <3>3. \A id \in CallIds : decisions'[id] # 0 =>
            decisions'[id] \in 1..read' /\ msgs'[decisions'[id]].id = id
      BY <2>2, <3>1, <3>2 DEF IInv, LoopInv
    <3> QED BY <2>1, <3>3 DEF IInv, LoopInv
  <2> QED BY <2>1, <2>3, <1>k DEF IInv, LoopInv
<1>3. CASE \/ RunTool \/ EmitLens \/ AnswerAgain \/ EmitRequest \/ Register \/ Leave
  <2>1. UNCHANGED <<requests, decisions>>
    BY <1>3 DEF RunTool, EmitLens, AnswerAgain, EmitRequest, Register, Leave, agentVars,
       loopVars
  <2>2. runner' \in {"register", "wait"} => UNCHANGED place /\ decisions[Call] = 0
    <3>1. CASE RunTool \/ EmitLens \/ AnswerAgain \/ Leave
      BY <3>1 DEF RunTool, EmitLens, AnswerAgain, Leave, NextRequest, Return, EmitAnyway
    <3>2. CASE EmitRequest
      BY <3>2 DEF EmitRequest, loopVars
    <3>3. CASE Register
      BY <3>3 DEF Register, Return, agentVars, loopVars, IInv, LoopInv
    <3> QED BY <1>3, <3>1, <3>2, <3>3
  <2> QED BY <2>1, <2>2, <1>k DEF IInv, LoopInv, Call
<1>4. CASE /\ ~RunTool /\ ~EmitLens /\ ~RunEnds /\ ~AnswerAgain /\ ~EmitRequest
           /\ ~Register /\ ~TakeDecision /\ ~Leave
  <2>1. /\ UNCHANGED <<requests, place, decisions>>
        /\ runner' \in {"register", "wait"} => runner' = runner
    BY <1>4, LoopElsewhere DEF loopVars, Asking, Waiting
  <2> QED BY <2>1, <1>k DEF IInv, LoopInv, Call
<1> QED BY <1>1, <1>2, <1>3, <1>4

(* Every step keeps the approved responses in order. *)
LEMMA GrantStep ==
  ASSUME IInv, [Next]_vars
  PROVE  GrantInv'
<1>g. grants \in Seq(Nat) /\ requests \in Seq(CallIds) /\ decisions \in [CallIds -> Nat]
      /\ place \in Nat /\ DOMAIN grants = 1..Len(grants)
      /\ \A k \in DOMAIN grants : grants[k] \in Nat
  <2>1. grants \in Seq(Nat) BY DEF IInv, TypeOK
  <2> QED BY <2>1 DEF IInv, TypeOK
<1>r. read \in Nat /\ read' \in Nat /\ read <= read'
  <2>1. read <= read' BY LogGrows DEF IInv
  <2>2. TypeOK /\ TypeOK' BY TypeStep DEF IInv
  <2> QED BY <2>1, <2>2 DEF TypeOK, StreamTypeOK
\* Approvals that have been read stay what they are.
<1>l. ASSUME NEW k \in DOMAIN grants
      PROVE  /\ grants[k] \in DOMAIN requests /\ By(grants[k]) <= read'
             /\ Approves(msgs', By(grants[k]), requests[grants[k]])
             /\ requests[grants[k]] \in CallIds /\ By(grants[k]) # 0
  <2>1. /\ grants[k] \in DOMAIN requests /\ By(grants[k]) <= read
        /\ Approves(msgs, By(grants[k]), requests[grants[k]])
    BY DEF IInv, GrantInv
  <2>2. requests[grants[k]] \in CallIds BY <2>1, <1>g
  <2>3. By(grants[k]) \in 1..Len(msgs) BY <2>1 DEF Approves
  <2>4. By(grants[k]) <= read' BY <2>1, <2>3, <1>r
  <2>5. Approves(msgs', By(grants[k]), requests[grants[k]])
    BY <2>1, <2>3, LogGrows DEF IInv, TypeOK, StreamTypeOK, Approves
  <2> QED BY <2>1, <2>2, <2>3, <2>4, <2>5
\* The step adds the request at hand, which comes after all collected so far.
<1>a. ASSUME grants' = Append(grants, place), place \in DOMAIN requests, UNCHANGED requests,
             decisions'[requests[place]] <= read',
             Approves(msgs', decisions'[requests[place]], requests[place]),
             \A k \in DOMAIN grants :
               grants[k] < place /\ decisions'[requests[grants[k]]] = By(grants[k]),
             runner' \in {"leave", "ask", "loop"}, place <= place',
             runner' = "ask" => place < place', place' \in Nat
      PROVE  GrantInv'
  <2>1. /\ \A k \in DOMAIN grants : k \in DOMAIN grants' /\ grants'[k] = grants[k]
        /\ grants'[Len(grants')] = place /\ Len(grants') = Len(grants) + 1
        /\ \A k \in DOMAIN grants' : k \in DOMAIN grants \/ k = Len(grants')
    BY <1>a, <1>g, QueueAppend
  <2>2. \A j, k \in DOMAIN grants' : j < k => grants'[j] < grants'[k]
    <3> SUFFICES ASSUME NEW j \in DOMAIN grants', NEW k \in DOMAIN grants', j < k
                 PROVE  grants'[j] < grants'[k]
      OBVIOUS
    <3>1. j \in DOMAIN grants BY <2>1, <1>g
    <3>2. CASE k \in DOMAIN grants BY <2>1, <3>1, <3>2 DEF IInv, GrantInv
    <3>3. CASE k = Len(grants') BY <1>a, <2>1, <3>1, <3>3
    <3> QED BY <2>1, <3>2, <3>3
  <2>3. ASSUME NEW k \in DOMAIN grants'
        PROVE  /\ grants'[k] \in DOMAIN requests
               /\ decisions'[requests[grants'[k]]] <= read'
               /\ Approves(msgs', decisions'[requests[grants'[k]]], requests[grants'[k]])
               /\ grants'[k] <= place
    <3>1. CASE k \in DOMAIN grants
      <4>1. grants'[k] = grants[k] /\ grants[k] < place /\ grants[k] \in Nat
        BY <1>a, <1>g, <2>1, <3>1
      <4>2. decisions'[requests[grants[k]]] = By(grants[k]) BY <1>a, <3>1
      <4> QED BY <1>g, <1>l, <3>1, <4>1, <4>2
    <3>2. CASE k = Len(grants')
      <4>1. grants'[k] = place BY <2>1, <3>2
      <4> QED BY <1>a, <1>g, <4>1
    <3> QED BY <2>1, <3>1, <3>2
  <2>4. \A k \in DOMAIN grants' : grants'[k] \in Nat
    BY <1>a, <1>g, <2>1
  <2>5. \A k \in DOMAIN grants' :
          /\ runner' \in {"ask", "register", "wait"} => grants'[k] < place'
          /\ runner' = "leave" => grants'[k] <= place'
    <3> TAKE k \in DOMAIN grants'
    <3>1. CASE k \in DOMAIN grants
      <4>1. grants'[k] = grants[k] /\ grants[k] < place BY <1>a, <1>g, <2>1, <3>1
      <4> QED BY <1>a, <2>4, <4>1
    <3>2. CASE k = Len(grants')
      <4>1. grants'[k] = place BY <2>1, <3>2
      <4> QED BY <1>a, <4>1
    <3> QED BY <2>1, <3>1, <3>2
  <2> QED BY <1>a, <2>2, <2>3, <2>5 DEF GrantInv, By
\* The first of them has been used.
<1>h. ASSUME grants' = Tail(grants), grants # <<>>, UNCHANGED <<requests, decisions>>,
             runner' = "run"
      PROVE  GrantInv'
  <2>1. \A k \in DOMAIN Tail(grants) :
          k \in Nat \ {0} /\ k + 1 \in DOMAIN grants /\ Tail(grants)[k] = grants[k + 1]
    BY <1>h, FirstGrant
  <2>2. \A j, k \in DOMAIN Tail(grants) : j < k => j + 1 < k + 1 BY <2>1
  <2>3. \A j, k \in DOMAIN grants' : j < k => grants'[j] < grants'[k]
    BY <1>h, <2>1, <2>2 DEF IInv, GrantInv
  <2> QED BY <1>h, <1>l, <2>1, <2>3 DEF GrantInv, By
\* They stay, and the loop goes on to its next request or ends.
<1>s. ASSUME UNCHANGED <<grants, requests, decisions>>,
             \A k \in DOMAIN grants :
               /\ runner' \in {"ask", "register", "wait"} => grants[k] < place'
               /\ runner' = "leave" => grants[k] <= place'
      PROVE  GrantInv'
  BY <1>s, <1>l DEF GrantInv, By, IInv
<1>1. CASE RunTool
  <2>1. grants # <<>> /\ UNCHANGED loopVars
        /\ \/ grants' = Tail(grants) /\ runner' = "run"
           \/ UNCHANGED grants /\ runner' = "announce"
    BY <1>1 DEF RunTool
  <2> QED BY <2>1, <1>h, <1>s DEF loopVars
<1>2. CASE EmitLens
  <2>1. grants # <<>> /\ UNCHANGED loopVars /\ grants' = Tail(grants) /\ runner' = "run"
    BY <1>2 DEF EmitLens, EmitAnyway, IInv, WaitInv
  <2> QED BY <2>1, <1>h DEF loopVars
<1>3. CASE RunEnds
  <2>1. grants = <<>> /\ grants' = <<>> BY <1>3 DEF RunEnds
  <2> QED BY <2>1 DEF GrantInv
<1>4. CASE AnswerAgain
  <2>1. /\ runner = "ask" /\ decisions[Call] # 0 /\ UNCHANGED <<requests, decisions, msgs, read>>
        /\ grants' = IF msgs[decisions[Call]].kind = "approved"
                       THEN Append(grants, place) ELSE grants
        /\ place' = place + 1 /\ runner' \in {"loop", "ask"}
    BY <1>4 DEF AnswerAgain, NextRequest, OtherThanRunner, streamVars
  <2>2. place \in DOMAIN requests /\ requests[place] \in CallIds /\ Call = requests[place]
    BY <2>1, <1>g DEF IInv, WaitInv, Asking, Call
  <2>3. \A k \in DOMAIN grants : grants[k] < place
    BY <2>1 DEF IInv, GrantInv
  <2>4. CASE grants' = grants
    <3>1. \A k \in DOMAIN grants : grants[k] < place' BY <2>1, <2>3, <1>g
    <3> QED BY <2>1, <2>4, <3>1, <1>s
  <2>5. CASE grants' = Append(grants, place) /\ msgs[decisions[Call]].kind = "approved"
    <3>1. decisions[Call] \in 1..read /\ msgs[decisions[Call]].id = Call
      BY <2>1, <2>2 DEF IInv, LoopInv
    <3>2. /\ decisions'[requests[place]] <= read'
          /\ Approves(msgs', decisions'[requests[place]], requests[place])
      <4>1. read <= Len(msgs) /\ Len(msgs) \in Nat
        BY DEF IInv, TypeOK, StreamTypeOK
      <4> QED BY <2>1, <2>2, <2>5, <3>1, <4>1, <1>r DEF Approves
    <3>3. \A k \in DOMAIN grants :
            grants[k] < place /\ decisions'[requests[grants[k]]] = By(grants[k])
      BY <2>1, <2>3 DEF By
    <3>4. place <= place' /\ place < place' /\ place' \in Nat BY <2>1, <1>g
    <3> QED BY <2>1, <2>2, <2>5, <3>2, <3>3, <3>4, <1>a
  <2> QED BY <2>1, <2>4, <2>5
<1>5. CASE TakeDecision
  <2>1. /\ runner = "wait" /\ UNCHANGED <<requests, place, msgs, read>>
        /\ \/ runner' = "giveup" /\ UNCHANGED <<decisions, grants>>
           \/ /\ runner' = "leave" /\ slot # 0
              /\ decisions' = [decisions EXCEPT ![Call] = slot]
              /\ grants' = IF msgs[slot].kind = "approved" THEN Append(grants, place) ELSE grants
    BY <1>5 DEF TakeDecision, OtherThanRunner, streamVars
  <2>2. place \in DOMAIN requests /\ requests[place] \in CallIds /\ Call = requests[place]
    BY <2>1, <1>g DEF IInv, WaitInv, Asking, Waiting, Call
  <2>3. \A k \in DOMAIN grants : grants[k] < place
    BY <2>1 DEF IInv, GrantInv
  <2>4. CASE runner' = "giveup" /\ UNCHANGED <<decisions, grants>>
    BY <2>1, <2>4, <1>s
  <2>5. CASE /\ runner' = "leave" /\ slot # 0
             /\ decisions' = [decisions EXCEPT ![Call] = slot]
             /\ grants' = IF msgs[slot].kind = "approved" THEN Append(grants, place) ELSE grants
    <3>1. slot \in 1..read /\ msgs[slot].id = Call /\ read <= Len(msgs) /\ Len(msgs) \in Nat
      BY <2>5 DEF IInv, WaitInv, TypeOK, StreamTypeOK
    \* The call at hand had no decision, so that no response so far is for it.
    <3>2. \A k \in DOMAIN grants : requests[grants[k]] # Call
      BY <2>1, <1>l DEF IInv, LoopInv, By
    <3>3. \A k \in DOMAIN grants : decisions'[requests[grants[k]]] = By(grants[k])
      BY <2>1, <2>5, <3>2, <1>g, <1>l DEF By
    <3>4. decisions'[requests[place]] = slot
      BY <2>1, <2>2, <2>5, <1>g
    <3>5. CASE msgs[slot].kind = "approved"
      <4>1. grants' = Append(grants, place) BY <2>5, <3>5
      <4>2. /\ decisions'[requests[place]] <= read'
            /\ Approves(msgs', decisions'[requests[place]], requests[place])
        BY <2>1, <2>2, <3>1, <3>4, <3>5, <1>r DEF Approves
      <4>3. place <= place' /\ place' \in Nat BY <2>1, <1>g
      <4> QED BY <2>1, <2>2, <2>3, <2>5, <3>3, <4>1, <4>2, <4>3, <1>a
    <3>6. CASE msgs[slot].kind # "approved"
      <4>1. grants' = grants BY <2>5, <3>6
      <4>2. \A k \in DOMAIN grants : grants[k] <= place' BY <2>1, <2>3, <1>g
      <4> QED BY <2>1, <2>5, <3>3, <4>1, <4>2, <1>l DEF GrantInv, By, IInv
    <3> QED BY <3>5, <3>6
  <2> QED BY <2>1, <2>4, <2>5
<1>6. CASE Leave
  <2>1. /\ UNCHANGED <<grants, requests, decisions>> /\ runner \in {"leave", "giveup"}
        /\ \/ runner' = "closing"
           \/ runner = "leave" /\ place' = place + 1 /\ runner' \in {"loop", "ask"}
    BY <1>6 DEF Leave, NextRequest, Return
  <2>2. runner = "leave" => \A k \in DOMAIN grants : grants[k] < place + 1
    BY <1>g DEF IInv, GrantInv
  <2> QED BY <2>1, <2>2, <1>s
<1>7. CASE EmitRequest \/ Register
  <2>1. /\ UNCHANGED <<grants, requests, place, decisions>> /\ runner \in {"ask", "register"}
        /\ runner' \in {"register", "wait", "closing"}
    BY <1>7 DEF EmitRequest, Register, EmitThen, Return, agentVars, loopVars
  <2>2. \A k \in DOMAIN grants : grants[k] < place
    BY <2>1 DEF IInv, GrantInv
  <2> QED BY <2>1, <2>2, <1>s
<1>8. CASE /\ ~RunTool /\ ~EmitLens /\ ~RunEnds /\ ~AnswerAgain /\ ~EmitRequest
           /\ ~Register /\ ~TakeDecision /\ ~Leave
  <2>1. /\ UNCHANGED <<grants, requests, place, decisions>>
        /\ runner' \in {"ask", "register", "wait", "leave"} => runner' = runner
    BY <1>8, LoopElsewhere DEF loopVars, Asking, Waiting
  <2>2. \A k \in DOMAIN grants :
          /\ runner' \in {"ask", "register", "wait"} => grants[k] < place'
          /\ runner' = "leave" => grants[k] <= place'
    BY <2>1 DEF IInv, GrantInv
  <2> QED BY <2>1, <2>2, <1>s
<1> QED BY <1>1, <1>2, <1>3, <1>4, <1>5, <1>6, <1>7, <1>8

(* Every step keeps the writes before the approvals still to be used. *)
LEMMA WriteStep ==
  ASSUME IInv, [Next]_vars
  PROVE  WriteInv'
<1>w. \A w \in writes : w.by \in Nat \ {0} /\ w.by <= read /\ w.id \in CallIds
  BY DEF IInv, TypeOK, Writes, GateHolds, Approves
<1>r. slot \in Nat /\ read \in Nat /\ decisions \in [CallIds -> Nat]
  BY DEF IInv, TypeOK, StreamTypeOK
\* A decision just put in the channel comes after all that was read before.
<1>s. slot' # 0 => \A w \in writes : w.by < slot'
  <2>1. CASE slot' = slot \/ slot' = 0 BY <2>1 DEF IInv, WriteInv
  <2>2. CASE slot' = read + 1 BY <2>2, <1>w, <1>r
  <2> QED BY <2>1, <2>2, SlotElsewhere DEF ReadMessage
\* No write is under a decision of the loop at hand.
<1>n. ASSUME UNCHANGED writes, \A w \in writes : w.by # decisions'[w.id]
      PROVE  WriteInv'
  BY <1>s, <1>n DEF WriteInv
<1>1. CASE RunTool
  <2> DEFINE a == grants[1]
  <2>1. UNCHANGED <<slot, requests, decisions>> /\ runner = "run" /\ grants # <<>>
    BY <1>1 DEF RunTool, slotVars, loopVars
  <2>2. slot' = 0 BY <2>1 DEF IInv, WaitInv, Waiting
  <2>3. /\ Head(grants) = a /\ a \in DOMAIN requests
        /\ \A k \in DOMAIN Tail(grants) :
             k \in Nat \ {0} /\ k + 1 \in DOMAIN grants /\ Tail(grants)[k] = grants[k + 1]
        /\ \A k \in DOMAIN grants : k # 1 => a < grants[k]
    BY <2>1, FirstGrant
  <2>4. \A w \in writes' : w \in writes \/ \E whole \in BOOLEAN : w = LensWrite(a, whole)
    BY <1>1, <2>3 DEF RunTool
  <2>5. \A whole \in BOOLEAN :
          /\ LensWrite(a, whole).id = requests[a] /\ LensWrite(a, whole).by = By(a)
          /\ LensWrite(a, whole).at = a
    BY DEF LensWrite, Write, By
  <2>6. \A w \in writes : w.by = decisions[w.id] =>
          /\ w.at \in DOMAIN requests /\ requests[w.at] = w.id
          /\ \A k \in DOMAIN grants : w.at < grants[k]
    BY <2>1 DEF IInv, WriteInv
  <2>7. \A w \in writes' : w.by = decisions[w.id] =>
          /\ w.at \in DOMAIN requests /\ requests[w.at] = w.id
          /\ \A k \in DOMAIN grants : k # 1 => w.at < grants[k]
    <3> HIDE DEF a
    <3> QED BY <2>3, <2>4, <2>5, <2>6
  <2>8. CASE grants' = Tail(grants) /\ runner' = "run"
    <3>1. \A k \in DOMAIN Tail(grants) : k + 1 # 1 BY <2>3
    <3>2. \A w \in writes' : w.by = decisions[w.id] =>
            \A k \in DOMAIN grants' : w.at < grants'[k]
      BY <2>3, <2>7, <2>8, <3>1
    <3> QED BY <2>1, <2>2, <2>7, <2>8, <3>2 DEF WriteInv, Asking, Waiting
  <2>9. CASE UNCHANGED grants /\ runner' = "announce"
             /\ writes' = writes \cup {LensWrite(a, TRUE)}
    <3>1. \A w \in writes' : w.by = decisions[w.id] =>
            \A k \in DOMAIN grants : w.at < grants[k] \/ (k = 1 /\ w = LensWrite(a, TRUE))
      BY <2>6, <2>7, <2>9
    <3>2. LensWrite(a, TRUE)' = LensWrite(a, TRUE)
      BY <2>1, <2>9 DEF LensWrite
    <3> QED BY <2>1, <2>2, <2>7, <2>9, <3>1, <3>2 DEF WriteInv, Asking, Waiting
  <2> QED BY <1>1, <2>3, <2>8, <2>9 DEF RunTool
<1>2. CASE EmitLens
  <2> DEFINE a == grants[1]
  <2>1. /\ UNCHANGED <<slot, writes, requests, decisions>> /\ runner = "announce"
        /\ runner' = "run" /\ grants' = Tail(grants) /\ grants # <<>>
    BY <1>2 DEF EmitLens, EmitAnyway, OtherThanEmit, slotVars, loopVars, IInv, WaitInv
  <2>2. /\ \A k \in DOMAIN Tail(grants) :
             k \in Nat \ {0} /\ k + 1 \in DOMAIN grants /\ Tail(grants)[k] = grants[k + 1]
        /\ \A k \in DOMAIN grants : k # 1 => a < grants[k]
    BY <2>1, FirstGrant
  <2>3. \A k \in DOMAIN Tail(grants) : k + 1 # 1 BY <2>2
  <2>4. \A w \in writes : w.by = decisions[w.id] =>
          /\ w.at \in DOMAIN requests /\ requests[w.at] = w.id
          /\ \A k \in DOMAIN grants : k # 1 => w.at < grants[k]
    BY DEF IInv, WriteInv
  <2>5. \A w \in writes : w.by = decisions[w.id] =>
          \A k \in DOMAIN grants' : w.at < grants'[k]
    BY <2>1, <2>2, <2>3, <2>4
  <2> QED BY <2>1, <2>4, <2>5, <1>s DEF WriteInv, Asking, Waiting
<1>3. CASE RunEnds
  <2>1. UNCHANGED writes /\ decisions' = Undecided BY <1>3 DEF RunEnds
  <2>2. \A w \in writes : w.by # decisions'[w.id]
    BY <2>1, <1>w DEF Undecided
  <2> QED BY <2>1, <2>2, <1>n
<1>4. CASE AnswerAgain \/ EmitRequest \/ Register \/ Leave
  <2>1. UNCHANGED <<writes, decisions>> /\ runner \in Asking
    BY <1>4 DEF AnswerAgain, EmitRequest, Register, Leave, Asking, Waiting, agentVars,
       loopVars
  <2> QED BY <2>1, <1>n DEF IInv, WriteInv
<1>5. CASE TakeDecision
  <2>1. UNCHANGED writes /\ runner \in Asking /\ runner = "wait"
        /\ \/ UNCHANGED decisions
           \/ slot # 0 /\ decisions' = [decisions EXCEPT ![Call] = slot]
    BY <1>5 DEF TakeDecision, Asking, Waiting
  <2>2. CASE UNCHANGED decisions
    BY <2>1, <2>2, <1>n DEF IInv, WriteInv
  <2>3. CASE slot # 0 /\ decisions' = [decisions EXCEPT ![Call] = slot]
    <3>1. \A w \in writes : decisions'[w.id] = IF w.id = Call THEN slot ELSE decisions[w.id]
      BY <2>3, <1>w, <1>r
    <3>2. \A w \in writes : w.by < slot BY <2>3 DEF IInv, WriteInv
    <3>3. \A w \in writes : w.by # slot BY <3>2, <1>w, <1>r
    <3> QED BY <2>1, <3>1, <3>3, <1>n DEF IInv, WriteInv
  <2> QED BY <2>1, <2>2, <2>3
<1>6. CASE /\ ~RunTool /\ ~EmitLens /\ ~RunEnds /\ ~AnswerAgain /\ ~EmitRequest
           /\ ~Register /\ ~TakeDecision /\ ~Leave
  <2>1. /\ UNCHANGED <<grants, requests, decisions, writes>>
        /\ runner' \in Asking \cup {"announce"} => runner' = runner
    BY <1>6, LoopElsewhere DEF loopVars
  <2>2. CASE runner = "announce" /\ runner' # "announce"
    \* Only EmitLens leaves the listener.
    <3>1. FALSE
      BY <2>2, <1>6, NextCases DEF InteractRejects, InteractAccepts, StreamCancelled, PumpSends,
         PumpFails, PumpEnds, EmitStarted, AgentInitFails, TurnLoop, EmitText, RunFails,
         EmitError, EmitCompleted, EmitWaits, RunnerCloses, ReadMessage, ReadEnd,
         ReaderCloses, ReaderCancels, HostStep, vars
    <3> QED BY <3>1
  <2>3. CASE ~(runner = "announce" /\ runner' # "announce")
    <3>1. LensWrite(grants[1], TRUE)' = LensWrite(grants[1], TRUE)
      BY <2>1 DEF LensWrite
    <3> QED BY <2>1, <2>3, <3>1, <1>s DEF IInv, WriteInv
  <2> QED BY <2>2, <2>3
<1> QED BY <1>1, <1>2, <1>3, <1>4, <1>5, <1>6

(* Every step keeps the gate. *)
LEMMA GateStep ==
  ASSUME IInv, [Next]_vars
  PROVE  GateHolds'
<1>1. \A w \in writes : w.by <= read' /\ Approves(msgs', w.by, w.id)
  <2>1. read \in Nat /\ read' \in Nat /\ read <= read'
    <3>1. read <= read' BY LogGrows DEF IInv
    <3>2. TypeOK /\ TypeOK' BY TypeStep DEF IInv
    <3> QED BY <3>1, <3>2 DEF TypeOK, StreamTypeOK
  <2>2. \A w \in writes : w.by \in Nat BY DEF IInv, TypeOK, Writes
  <2>3. \A k \in 1..Len(msgs) : k \in 1..Len(msgs') /\ msgs'[k] = msgs[k]
    BY LogGrows DEF IInv
  <2> QED BY <2>1, <2>2, <2>3 DEF IInv, GateHolds, Approves
<1>2. CASE RunTool
  <2> DEFINE a == grants[1]
  <2>1. UNCHANGED <<msgs, read>> /\ runner = "run" /\ grants # <<>>
    BY <1>2 DEF RunTool, OtherThanRunner, streamVars
  <2>2. /\ Head(grants) = a /\ By(a) <= read /\ Approves(msgs, By(a), requests[a])
        /\ \A w \in writes : w.by = By(a) =>
             w.id = requests[a] /\ w.at # a /\ requests[a] \in Repeated
    BY <2>1, FirstGrant
  <2>3. PICK whole \in BOOLEAN : writes' \subseteq writes \cup {LensWrite(a, whole)}
    BY <1>2, <2>2 DEF RunTool
  <2>4. LensWrite(a, whole).id = requests[a] /\ LensWrite(a, whole).by = By(a)
        /\ LensWrite(a, whole).at = a
    BY DEF LensWrite, Write, By
  <2> DEFINE x == LensWrite(a, whole)
  <2> HIDE DEF x, a
  <2>5. \A w \in writes' : w \in writes \/ w = x BY <2>3 DEF x, a
  <2>6. \A w \in writes' : w.by <= read' /\ Approves(msgs', w.by, w.id)
    BY <1>1, <2>1, <2>2, <2>4, <2>5 DEF x
  <2>7. ASSUME NEW v \in writes', NEW w \in writes', v.by = w.by
        PROVE  v = w \/ (v.at # w.at /\ v.id \in Repeated)
    <3>1. CASE v \in writes /\ w \in writes
      BY <2>7, <3>1 DEF IInv, GateHolds
    <3>2. CASE v \in writes /\ w = x BY <2>2, <2>4, <2>7, <3>2 DEF x
    <3>3. CASE v = x /\ w \in writes BY <2>2, <2>4, <2>7, <3>3 DEF x
    <3> QED BY <2>5, <3>1, <3>2, <3>3
  <2> QED BY <2>6, <2>7 DEF GateHolds
<1>3. CASE ~RunTool
  <2>1. UNCHANGED writes BY <1>3, WritesOnlyInRunTool
  <2> QED BY <1>1, <2>1 DEF IInv, GateHolds
<1> QED BY <1>2, <1>3

-----------------------------------------------------------------------------
(* The invariant holds at first. *)
LEMMA InitInvariant == Init => IInv
<1> SUFFICES ASSUME Init PROVE IInv
  OBVIOUS
<1> USE DEF Init, StreamInit
<1>1. TypeOK
  <2>1. StreamTypeOK BY DEF StreamTypeOK
  <2>2. requests \in Seq(CallIds) /\ grants \in Seq(Nat)
    BY EmptySeq
  <2>3. round \in 0..MaxRounds BY GoAssumption
  <2>4. decisions \in [CallIds -> Nat] BY DEF Undecided
  <2> QED BY <2>1, <2>2, <2>3, <2>4 DEF TypeOK
<1>2. AnswersAnEvent BY DEF AnswersAnEvent
<1>3. WaitInv BY DEF WaitInv, Asking, Waiting
<1>4. LoopInv BY DEF LoopInv, Undecided
<1>5. GrantInv /\ WriteInv /\ GateHolds BY DEF GrantInv, WriteInv, GateHolds
<1> QED BY <1>1, <1>2, <1>3, <1>4, <1>5 DEF IInv

LEMMA AnswersStep ==
  ASSUME TypeOK, AnswersAnEvent, [Next]_vars
  PROVE  AnswersAnEvent'
<1>1. CASE HostStep BY <1>1, HostMoves DEF HostStep, TypeOK
<1>2. CASE ~HostStep
  <2>1. UNCHANGED <<host, delivered>>
    BY <1>2, NextCases DEF InteractRejects, InteractAccepts, StreamCancelled, PumpSends,
       PumpFails, PumpEnds, Transmit, EmitStarted, AgentInitFails, TurnLoop, RunTool,
       EmitLens, EmitText, RunEnds, RunFails, AnswerAgain, EmitRequest, Register, TakeDecision, Leave,
       EmitError, EmitCompleted, EmitWaits, RunnerCloses, ReadMessage, ReadEnd,
       ReaderCloses, ReaderCancels, OtherThanEmit, OtherThanRunner, streamVars, vars
  <2> QED BY <2>1 DEF AnswersAnEvent
<1> QED BY <1>1, <1>2

(* ... and always. *)
THEOREM Invariance == Spec => []IInv
<1>1. IInv /\ [Next]_vars => IInv'
  BY TypeStep, AnswersStep, WaitStep, LoopStep, GrantStep, WriteStep, GateStep DEF IInv
<1> QED BY <1>1, InitInvariant, PTL DEF Spec

(* The types of every variable, for any capacity, batches and host. *)
THEOREM TypeCorrect == Spec => []TypeOK
<1>1. IInv => TypeOK BY DEF IInv
<1> QED BY <1>1, Invariance, PTL

(* Whatever the host sends and however the goroutines interleave, every lens *)
(* write of the Go sidecar is under a decision that approves its call, and   *)
(* only requests under an id that a run may repeat share a decision, although*)
(* decisions are collected first, kept by id, and used in a later run.       *)
THEOREM GateAlwaysHolds == Spec => []GateHolds
<1>1. IInv => GateHolds BY DEF IInv
<1> QED BY <1>1, Invariance, PTL

-----------------------------------------------------------------------------
(***************************************************************************)
(* What closing the bridge rests on. Emit holds the mutex only while the   *)
(* bridge is open, which Close respects; the runner closes it last; and it *)
(* comes to that without a terminal event only where it has found the      *)
(* client gone or the bridge closed, by ctx, by its decision channel or by *)
(* Emit, each of which tells the truth.                                    *)
(***************************************************************************)
CloseInv ==
  /\ mu = "runner" => closed = "no"
  /\ closed = "clean" => runner = "done"
  /\ cancelled \/ runner = "giveup" => link # "up" \/ closed # "no"
  /\ reader = "cancelling" \/ ~slotOpen => closed # "no"
  /\ runner \in {"closing", "done"} /\ closed # "error" /\ link = "up" =>
       events # <<>> /\ events[Len(events)].kind \in Terminal

(* A connection that is gone does not come back. *)
LEMMA LinkStaysDown ==
  ASSUME TypeOK, AnswersAnEvent, [Next]_vars
  PROVE  link' = "up" => link = "up"
<1>1. CASE HostStep
  BY <1>1, HostMoves DEF HostStep, TypeOK
<1>2. CASE ~HostStep
  BY <1>2, NextCases DEF InteractRejects, InteractAccepts, StreamCancelled, PumpSends,
     PumpFails, PumpEnds, Transmit, EmitStarted, AgentInitFails, TurnLoop, RunTool,
     EmitLens, EmitText, RunEnds, RunFails, AnswerAgain, EmitRequest, Register, TakeDecision, Leave,
     EmitError, EmitCompleted, EmitWaits, RunnerCloses, ReadMessage, ReadEnd,
     ReaderCloses, ReaderCancels, OtherThanEmit, OtherThanRunner, streamVars, vars
<1> QED BY <1>1, <1>2

(* A runner that emits last leaves a terminal event, or the bridge was closed. *)
LEMMA LastIsTerminal ==
  ASSUME TypeOK, CloseInv, NEW kind \in Terminal,
         EmitOk(Signal(kind)) \/ EmitErr, runner # "done", closed # "error"
  PROVE  events' # <<>> /\ events'[Len(events')].kind \in Terminal
<1>1. events' = Append(events, Signal(kind))
  BY DEF EmitOk, EmitErr, CloseInv, TypeOK
<1>2. Signal(kind) \in AgentEvent /\ Signal(kind).kind = kind
  BY SignalFields DEF Terminal, EventKinds
<1>3. events \in Seq(AgentEvent) BY DEF TypeOK, StreamTypeOK
<1> QED BY <1>1, <1>2, <1>3, OneMoreEvent

(* Every step keeps it. *)
LEMMA CloseStep ==
  ASSUME IInv, CloseInv, [Next]_vars
  PROVE  CloseInv'
<1>l. link' = "up" => link = "up" BY LinkStaysDown DEF IInv
<1>t. TypeOK BY DEF IInv
<1> USE <1>l, <1>t DEF CloseInv, slotVars
<1>1. CASE InteractRejects \/ InteractAccepts
  <2>1. /\ UNCHANGED <<mu, closed, cancelled, slotOpen>>
        /\ runner = "idle" /\ runner' \in {"idle", "started"}
    BY <1>1 DEF InteractRejects, InteractAccepts
  <2>2. reader' = reader \/ reader' = "reading"
    BY <1>1 DEF InteractRejects, InteractAccepts
  <2> QED BY <2>1, <2>2
<1>2. CASE StreamCancelled \/ PumpFails \/ PumpEnds
  <2>1. /\ UNCHANGED <<mu, closed, slotOpen, runner, reader, events>>
        /\ link # "up" \/ closed # "no"
    BY <1>2 DEF StreamCancelled, PumpFails, PumpEnds, streamVars
  <2> QED BY <2>1
<1>3. CASE PumpSends \/ ReadMessage \/ ReadEnd \/ HostStep \/ UNCHANGED vars
  <2>1. UNCHANGED <<mu, closed, slotOpen, runner, cancelled, events>>
    BY <1>3, HostMoves DEF PumpSends, Transmit, ReadMessage, ReadEnd, HostStep, vars,
       streamVars, IInv, TypeOK
  <2>2. reader' = reader \/ reader' = "closing"
    BY <1>3 DEF PumpSends, ReadMessage, ReadEnd, HostStep, vars
  <2> QED BY <2>1, <2>2
<1>4. CASE EmitStarted \/ EmitText \/ EmitRequest \/ EmitLens
  <2>1. UNCHANGED <<closed, slotOpen, cancelled, reader>>
        /\ runner \in {"started", "run", "ask", "announce"}
    BY <1>4 DEF EmitStarted, EmitText, EmitRequest, EmitLens, OtherThanEmit
  <2>2. \/ runner' \in {"loop", "run", "register"}
        \/ runner' = "closing" /\ closed # "no"
    BY <1>4 DEF EmitStarted, EmitText, EmitRequest, EmitLens, EmitThen, EmitAnyway, EmitErr,
       Return
  <2>3. mu' = "free" \/ mu' = mu
    BY <1>4 DEF EmitStarted, EmitText, EmitRequest, EmitLens, EmitThen, EmitAnyway, EmitOk,
       EmitErr
  <2> QED BY <2>1, <2>2, <2>3 DEF TypeOK
<1>5. CASE EmitError \/ EmitCompleted
  <2>1. UNCHANGED <<closed, slotOpen, cancelled, reader>>
        /\ runner \in {"fail", "complete"} /\ runner' = "closing"
    BY <1>5 DEF EmitError, EmitCompleted, EmitAnyway, OtherThanEmit
  <2>2. mu' = "free" \/ mu' = mu
    BY <1>5 DEF EmitError, EmitCompleted, EmitAnyway, EmitOk, EmitErr
  <2>3. closed # "error" => events' # <<>> /\ events'[Len(events')].kind \in Terminal
    BY <1>5, <2>1, LastIsTerminal DEF EmitError, EmitCompleted, EmitAnyway, Terminal
  <2> QED BY <2>1, <2>2, <2>3
<1>6. CASE AgentInitFails \/ RunTool \/ RunEnds \/ AnswerAgain
  <2>1. UNCHANGED <<mu, closed, slotOpen, cancelled, reader>>
        /\ runner \in {"loop", "run", "ask"}
        /\ runner' \in {"fail", "run", "announce", "complete", "ask", "loop"}
    BY <1>6, Zenon DEF AgentInitFails, RunTool, RunEnds, AnswerAgain, NextRequest,
       OtherThanRunner
  <2> QED BY <2>1
<1>7. CASE TurnLoop \/ RunFails
  <2>1. UNCHANGED <<mu, closed, slotOpen, cancelled, reader>>
        /\ runner \in {"loop", "run"}
        /\ \/ runner' = "closing" /\ cancelled
           \/ runner' \in {"run", "fail"}
    BY <1>7 DEF TurnLoop, RunFails, OtherThanRunner, Return
  <2> QED BY <2>1 DEF TypeOK
<1>8. CASE Register
  \* The map is empty, so that only a closed bridge refuses.
  <2>1. UNCHANGED <<mu, closed, cancelled, reader>> /\ runner = "register"
    BY <1>8 DEF Register, OtherThanRunner
  <2>2. pending = {} BY <2>1 DEF IInv, WaitInv, Waiting
  <2>3. \/ runner' = "closing" /\ closed # "no" /\ slotOpen' = slotOpen
        \/ runner' = "wait" /\ slotOpen' = TRUE
    BY <1>8, <2>2 DEF Register, Return
  <2> QED BY <2>1, <2>3 DEF TypeOK
<1>9. CASE TakeDecision
  <2>1. UNCHANGED <<mu, closed, slotOpen, cancelled, reader>> /\ runner = "wait"
    BY <1>9 DEF TakeDecision, OtherThanRunner
  <2>2. \/ runner' = "giveup" /\ (cancelled \/ ~slotOpen)
        \/ runner' = "leave"
    BY <1>9 DEF TakeDecision
  <2> QED BY <2>1, <2>2
<1>10. CASE Leave
  <2>1. UNCHANGED <<mu, closed, slotOpen, cancelled, reader>>
        /\ runner \in {"leave", "giveup"}
    BY <1>10 DEF Leave, OtherThanRunner
  <2>2. \/ runner = "giveup" /\ runner' = "closing"
        \/ runner' \in {"loop", "ask"}
    BY <1>10 DEF Leave, NextRequest, Return
  <2> QED BY <2>1, <2>2 DEF TypeOK
<1>11. CASE EmitWaits
  BY <1>11 DEF EmitWaits, streamVars
<1>12. CASE RunnerCloses
  <2>1. UNCHANGED <<mu, cancelled, reader, events>> /\ mu = "free"
        /\ runner = "closing" /\ runner' = "done"
    BY <1>12 DEF RunnerCloses, Close, streamVars
  <2>2. closed' = IF closed = "no" THEN "clean" ELSE closed
    BY <1>12 DEF RunnerCloses, Close
  <2>3. slotOpen' = slotOpen \/ closed' # "no"
    BY <1>12 DEF RunnerCloses, Close
  <2> QED BY <2>1, <2>2, <2>3
<1>13. CASE ReaderCloses
  <2>1. UNCHANGED <<mu, cancelled, runner, events>> /\ mu = "free"
        /\ reader' = "cancelling"
    BY <1>13 DEF ReaderCloses, Close, streamVars
  <2>2. closed' = IF closed = "no" THEN "error" ELSE closed
    BY <1>13 DEF ReaderCloses, Close
  <2> QED BY <2>1, <2>2
<1>14. CASE ReaderCancels
  <2>1. UNCHANGED <<mu, closed, slotOpen, runner, events>>
        /\ reader = "cancelling" /\ reader' = "stopped"
    BY <1>14 DEF ReaderCancels, streamVars
  <2> QED BY <2>1
<1> QED
  BY <1>1, <1>2, <1>3, <1>4, <1>5, <1>6, <1>7, <1>8, <1>9, <1>10, <1>11, <1>12,
     <1>13, <1>14, NextCases

LEMMA CloseInvariance == Spec => []CloseInv
<1>1. Init => CloseInv
  BY DEF Init, StreamInit, CloseInv
<1>2. IInv /\ CloseInv /\ [Next]_vars => CloseInv'
  BY CloseStep
<1> QED BY <1>1, <1>2, Invariance, PTL DEF Spec

(* For any capacity and any interleaving of pump, reader and runner, nothing *)
(* is ever sent on the channel that Close has closed: no call can panic.     *)
THEOREM NeverSendsAfterClose == Spec => NoSendAfterClose
<1>1. CloseInv /\ [Next]_vars => [closed # "no" => events' = events]_vars
  <2> SUFFICES ASSUME CloseInv, [Next]_vars, closed # "no"
               PROVE  events' = events
    OBVIOUS
  <2>1. ASSUME NEW e PROVE ~EmitOk(e) BY DEF EmitOk, CloseInv
  <2>2. CASE \/ EmitStarted \/ EmitText \/ EmitRequest \/ EmitLens \/ EmitError
             \/ EmitCompleted
    BY <2>1, <2>2 DEF EmitStarted, EmitText, EmitRequest, EmitLens, EmitError,
       EmitCompleted, EmitThen, EmitAnyway, EmitErr
  <2>3. CASE HostStep
    BY <2>3 DEF HostStep, HostNext, HostOpens, HostReceives, HostAnswers, HostSeesEnd,
       HostCancels, LinkFails, RogueSends
  <2>4. CASE ~HostStep
    BY <2>2, <2>4, NextCases DEF InteractRejects, InteractAccepts, StreamCancelled,
       PumpSends, PumpFails, PumpEnds, Transmit, AgentInitFails, TurnLoop, RunTool, RunEnds,
       RunFails, AnswerAgain, Register, TakeDecision, Leave, EmitWaits, RunnerCloses,
       ReadMessage, ReadEnd, ReaderCloses, ReaderCancels, OtherThanRunner, streamVars, vars
  <2> QED BY <2>3, <2>4
<1> QED BY <1>1, CloseInvariance, PTL DEF Spec, NoSendAfterClose

(* Whoever the host is, a bridge that the runner closes in good order has    *)
(* carried a Completed or an Error if the client is there to see it.         *)
THEOREM CleanEndIsAlwaysTerminal == Spec => []CleanEndIsTerminal
<1>1. CloseInv => CleanEndIsTerminal
  BY DEF CloseInv, CleanEndIsTerminal
<1> QED BY <1>1, CloseInvariance, PTL

-----------------------------------------------------------------------------
(***************************************************************************)
(* What makes every step of the sidecar a step of AgentTurn: how far the   *)
(* response stream is, told from where the runner stands. A call enters    *)
(* the wait only after its request was queued, so that every id with a     *)
(* decision was asked about; and every LensChanged so far is about a write *)
(* made earlier, hence not for the request that is to be used next.        *)
(***************************************************************************)
LensTold ==
  \A i \in DOMAIN events : events[i].kind = "lens" =>
    \E w \in writes : w.by = events[i].by /\ w.at = events[i].at

DecidedAsked == \A id \in CallIds : decisions[id] # 0 => Asked(id)

Heard ==
  /\ runner = "idle" => read = 0 /\ reader = "idle"
  /\ runner # "idle" => msgs # <<>> /\ msgs[1].kind = "prompt"

Spoken ==
  /\ runner \in {"idle", "started"} => events = <<>>
  /\ runner \notin {"idle", "started", "closing", "done"} =>
       events # <<>> /\ events[Len(events)].kind \notin Terminal
  /\ runner \in {"register"} \cup Waiting => Asked(Call)
  /\ DecidedAsked
  /\ runner = "announce" =>
       LensWrite(grants[1], TRUE) \in writes /\ NotTold(By(grants[1]), grants[1])
  /\ LensTold

TurnInv == Heard /\ Spoken

(* Every step keeps what has been heard. *)
LEMMA HeardStep ==
  ASSUME IInv, Heard, [Next]_vars
  PROVE  Heard'
<1> USE DEF Heard
<1>1. CASE InteractRejects \/ UNCHANGED vars
  BY <1>1 DEF InteractRejects, vars, streamVars
<1>2. CASE InteractAccepts
  BY <1>2 DEF InteractAccepts, IInv, TypeOK, StreamTypeOK
<1>3. CASE HostStep
  <2>1. UNCHANGED <<runner, read, reader>>
    BY <1>3, HostMoves DEF HostStep, IInv, TypeOK
  <2>2. msgs # <<>> => msgs' # <<>> /\ msgs'[1] = msgs[1]
    BY <1>3, HostMoves DEF HostStep, IInv, TypeOK, StreamTypeOK
  <2> QED BY <2>1, <2>2
<1>4. CASE StreamCancelled \/ PumpSends \/ PumpFails \/ PumpEnds
  <2>1. UNCHANGED <<runner, read, reader, msgs>>
    BY <1>4 DEF StreamCancelled, PumpSends, PumpFails, PumpEnds, Transmit, streamVars
  <2> QED BY <2>1
<1>5. CASE ReadMessage \/ ReadEnd \/ ReaderCloses \/ ReaderCancels
  <2>1. UNCHANGED <<runner, msgs>> /\ reader # "idle"
    BY <1>5 DEF ReadMessage, ReadEnd, ReaderCloses, ReaderCancels, streamVars
  <2> QED BY <2>1
<1>6. CASE RunnerNext
  <2>1. UNCHANGED msgs /\ runner # "idle"
    BY <1>6 DEF RunnerNext, EmitStarted, AgentInitFails, TurnLoop, RunTool, EmitLens,
       EmitText, RunEnds, RunFails, AnswerAgain, EmitRequest, Register, TakeDecision, Leave, EmitError,
       EmitCompleted, EmitWaits, RunnerCloses, OtherThanEmit, OtherThanRunner, streamVars
  <2>2. runner' # "idle"
    BY <1>6 DEF RunnerNext, EmitStarted, AgentInitFails, TurnLoop, RunTool, EmitLens,
       EmitText, RunEnds, RunFails, AnswerAgain, EmitRequest, Register, TakeDecision, Leave, EmitError,
       EmitCompleted, EmitWaits, RunnerCloses, EmitThen, EmitAnyway, NextRequest, Return
  <2> QED BY <2>1, <2>2
<1> QED BY <1>1, <1>2, <1>3, <1>4, <1>5, <1>6 DEF Next, PumpNext, ReaderNext

(* What an Emit adds to what was said, whatever else its step does. *)
LEMMA Queued ==
  ASSUME IInv, LensTold, NEW e \in AgentEvent, EmitOk(e) \/ EmitErr, UNCHANGED writes,
         e.kind = "lens" => \E w \in writes : w.by = e.by /\ w.at = e.at
  PROVE  /\ LensTold'
         /\ \A id : Asked(id) => Asked(id)'
         /\ EmitOk(e) => events' # <<>> /\ events'[Len(events')] = e
         /\ \A id : EmitOk(e) /\ e.kind = "request" /\ e.id = id => Asked(id)'
<1>0. events \in Seq(AgentEvent) BY DEF IInv, TypeOK, StreamTypeOK
<1>1. CASE EmitErr
  <2>1. events' = events /\ ~EmitOk(e)
    BY <1>1, <1>0, OneMoreEvent DEF EmitErr, EmitOk
  <2> QED BY <2>1 DEF LensTold, Asked
<1>2. CASE EmitOk(e)
  <2>1. events' = Append(events, e) BY <1>2 DEF EmitOk
  <2>2. /\ events' # <<>> /\ events'[Len(events')] = e
        /\ \A i \in DOMAIN events' : (i \in DOMAIN events /\ events'[i] = events[i])
                                      \/ events'[i] = e
        /\ \A id : Asked(id) \/ (e.kind = "request" /\ e.id = id) => Asked(id)'
    BY <1>0, <2>1, MoreSaid
  <2>3. LensTold' BY <2>2 DEF LensTold
  <2> QED BY <2>2, <2>3
<1> QED BY <1>1, <1>2

(* Every step keeps the events in line with the runner. *)
LEMMA SpokenStep ==
  ASSUME IInv, TurnInv, [Next]_vars
  PROVE  Spoken'
<1> USE DEF TurnInv
<1>t. TypeOK BY DEF IInv
<1>c. runner \in Asking => Call \in CallIds
  BY DEF IInv, TypeOK, WaitInv, Call
\* A step that leaves events and writes alone, whatever else it does.
<1>q. ASSUME UNCHANGED <<events, writes>>
      PROVE  /\ LensTold'
             /\ \A id : Asked(id) => Asked(id)'
             /\ \A k, i : NotTold(k, i) => NotTold(k, i)'
  BY <1>q DEF LensTold, Spoken, Asked, NotTold
<1>1. CASE EmitStarted \/ EmitText
  <2>1. PICK kind \in {"started", "text"}, next \in {"loop", "run"} :
          EmitThen(Signal(kind), next)
    BY <1>1 DEF EmitStarted, EmitText
  <2>2. UNCHANGED <<writes, decisions>>
    BY <1>1 DEF EmitStarted, EmitText, agentVars, loopVars
  <2>3. Signal(kind) \in AgentEvent /\ Signal(kind).kind = kind
    BY SignalFields DEF EventKinds
  <2>4. /\ LensTold' /\ \A id : Asked(id) => Asked(id)'
        /\ EmitOk(Signal(kind)) => events' # <<>> /\ events'[Len(events')] = Signal(kind)
    BY <2>1, <2>2, <2>3, Queued DEF EmitThen, Spoken
  <2>5. runner' \notin {"idle", "started", "register", "announce"} \cup Waiting
    BY <2>1 DEF EmitThen, Return, Waiting
  <2>6. runner' \notin {"closing"} => EmitOk(Signal(kind))
    BY <2>1 DEF EmitThen, Return
  <2>7. DecidedAsked'
    BY <2>2, <2>4 DEF Spoken, DecidedAsked, Asked
  <2> QED BY <2>3, <2>4, <2>5, <2>6, <2>7 DEF Spoken, Terminal
<1>2. CASE \/ InteractAccepts \/ AgentInitFails \/ TurnLoop \/ RunEnds \/ RunFails
           \/ AnswerAgain \/ RunnerCloses
  <2>1. UNCHANGED <<events, writes>>
    BY <1>2 DEF InteractAccepts, AgentInitFails, TurnLoop, RunEnds, RunFails, AnswerAgain,
       RunnerCloses, OtherThanRunner, streamVars, agentVars
  <2>2. \/ runner = "idle" /\ runner' = "started"
        \/ /\ runner \in {"loop", "run", "ask"}
           /\ runner' \in {"run", "fail", "complete", "ask", "loop"}
        \/ runner' \in {"closing", "done"}
    BY <1>2 DEF InteractAccepts, AgentInitFails, TurnLoop, RunEnds, RunFails, AnswerAgain,
       NextRequest, RunnerCloses, Return
  <2>3. DecidedAsked'
    <3>1. decisions' = decisions \/ decisions' = Undecided
      BY <1>2 DEF InteractAccepts, AgentInitFails, TurnLoop, RunEnds, RunFails, AnswerAgain,
         RunnerCloses, agentVars, loopVars
    <3> QED BY <2>1, <3>1, <1>q DEF Spoken, DecidedAsked, Undecided
  <2> QED BY <2>1, <2>2, <2>3, <1>q DEF Spoken, Waiting
<1>3. CASE RunTool
  <2> DEFINE a == grants[1]
  <2>1. /\ UNCHANGED <<events, requests, decisions>> /\ runner = "run" /\ grants # <<>>
        /\ writes \subseteq writes'
        /\ \/ runner' = "run"
           \/ /\ grants' = grants /\ runner' = "announce"
              /\ LensWrite(Head(grants), TRUE) \in writes'
    BY <1>3 DEF RunTool, OtherThanRunner, streamVars, loopVars
  <2>2. LensTold' BY <2>1 DEF LensTold, Spoken
  <2>3. DecidedAsked' BY <2>1 DEF Spoken, DecidedAsked, Asked
  \* What was announced was written for an earlier request.
  <2>4. Head(grants) = a /\ NotTold(By(a), a)
    <3>1. /\ Head(grants) = a
          /\ \A w \in writes : w.by = By(a) => w.at # a
      BY <2>1, FirstGrant
    <3> QED BY <3>1 DEF NotTold, LensTold, Spoken
  <2>5. CASE /\ grants' = grants /\ runner' = "announce"
             /\ LensWrite(Head(grants), TRUE) \in writes'
    <3>1. LensWrite(a, TRUE)' = LensWrite(a, TRUE) /\ By(a)' = By(a) /\ a' = a
      BY <2>1, <2>5 DEF LensWrite, By
    <3>2. NotTold(By(a), a)' BY <2>1, <2>4, <3>1 DEF NotTold
    <3> QED BY <2>1, <2>2, <2>3, <2>4, <2>5, <3>1, <3>2 DEF Spoken, Waiting
  <2> QED BY <2>1, <2>2, <2>3, <2>5 DEF Spoken, Waiting
<1>4. CASE EmitLens
  <2> DEFINE x == LensWrite(Head(grants), TRUE)
             e == Lens(x.id, x.by, x.at)
  <2>1. /\ UNCHANGED <<writes, decisions>> /\ runner = "announce" /\ runner' = "run"
        /\ grants # <<>> /\ (EmitOk(e) \/ EmitErr)
    BY <1>4 DEF EmitLens, EmitAnyway, IInv, WaitInv, loopVars
  <2>2. x \in writes /\ x \in Writes
    <3>1. x \in writes BY <2>1, FirstGrant DEF Spoken
    <3> QED BY <3>1, <1>t DEF TypeOK
  <2>3. e \in AgentEvent /\ e.kind = "lens" /\ e.by = x.by /\ e.at = x.at
    <3>1. x.id \in CallIds /\ x.by \in Nat /\ x.at \in Nat BY <2>2 DEF Writes
    <3> HIDE DEF x
    <3> QED BY <3>1, LensFields
  <2> HIDE DEF x, e
  <2>4. /\ LensTold' /\ \A id : Asked(id) => Asked(id)'
        /\ EmitOk(e) => events' # <<>> /\ events'[Len(events')] = e
    BY <2>1, <2>2, <2>3, Queued DEF Spoken
  <2>5. events' # <<>> /\ events'[Len(events')].kind \notin Terminal
    BY <2>1, <2>3, <2>4 DEF EmitErr, Spoken, Terminal
  <2>6. DecidedAsked'
    BY <2>1, <2>4 DEF Spoken, DecidedAsked
  <2> QED BY <2>1, <2>4, <2>5, <2>6 DEF Spoken, Waiting
<1>5. CASE EmitRequest
  <2> DEFINE e == Request(Call)
  <2>1. /\ UNCHANGED <<writes, requests, place, decisions>> /\ runner = "ask"
        /\ EmitThen(e, "register")
    BY <1>5 DEF EmitRequest, loopVars
  <2>2. e \in AgentEvent /\ e.kind = "request" /\ e.id = Call
    BY <2>1, <1>c, RequestFields DEF Asking
  <2> HIDE DEF e
  <2>3. /\ LensTold' /\ \A id : Asked(id) => Asked(id)'
        /\ EmitOk(e) => events' # <<>> /\ events'[Len(events')] = e
        /\ \A id : EmitOk(e) /\ e.kind = "request" /\ e.id = id => Asked(id)'
    BY <2>1, <2>2, Queued DEF EmitThen, Spoken
  <2>4. \/ EmitOk(e) /\ runner' = "register"
        \/ EmitErr /\ runner' = "closing"
    BY <2>1 DEF EmitThen, Return
  <2>5. EmitOk(e) => Asked(Call)'
    BY <2>1, <2>2, <2>3 DEF Asked, Call
  <2>6. DecidedAsked'
    BY <2>1, <2>3 DEF Spoken, DecidedAsked, Asked
  <2> QED BY <2>2, <2>3, <2>4, <2>5, <2>6 DEF Spoken, Terminal, Waiting
<1>6. CASE Register
  <2>1. /\ UNCHANGED <<events, writes, requests, place, decisions>> /\ runner = "register"
        /\ runner' \in {"closing", "wait"}
    BY <1>6 DEF Register, Return, OtherThanRunner, streamVars, agentVars, loopVars
  <2>2. DecidedAsked' BY <2>1, <1>q DEF Spoken, DecidedAsked
  <2>3. Asked(Call)' BY <2>1 DEF Spoken, Asked, Call
  <2> QED BY <2>1, <2>2, <2>3, <1>q DEF Spoken, Waiting
<1>7. CASE TakeDecision
  <2>1. /\ UNCHANGED <<events, writes, requests, place>> /\ runner = "wait"
        /\ runner' \in {"giveup", "leave"}
        /\ decisions' = decisions \/ decisions' = [decisions EXCEPT ![Call] = slot]
    BY <1>7 DEF TakeDecision, OtherThanRunner, streamVars
  <2>2. Asked(Call) /\ Asked(Call)' BY <2>1 DEF Spoken, Waiting, Asked, Call
  <2>3. \A id \in CallIds : decisions'[id] # 0 => decisions[id] # 0 \/ id = Call
    BY <2>1, <1>t DEF TypeOK
  <2>4. DecidedAsked'
    BY <2>1, <2>2, <2>3, <1>q DEF Spoken, DecidedAsked
  <2> QED BY <2>1, <2>2, <2>4, <1>q DEF Spoken, Waiting
<1>8. CASE Leave
  <2>1. /\ UNCHANGED <<events, writes, decisions>> /\ runner \in {"leave", "giveup"}
        /\ runner' \in {"closing", "loop", "ask"}
    BY <1>8 DEF Leave, NextRequest, Return, OtherThanRunner, streamVars
  <2>2. DecidedAsked'
    BY <2>1 DEF Spoken, DecidedAsked, Asked
  <2> QED BY <2>1, <2>2, <1>q DEF Spoken, Waiting
<1>9. CASE EmitError \/ EmitCompleted
  <2>1. PICK kind \in {"error", "completed"} : EmitAnyway(Signal(kind), "closing")
    BY <1>9 DEF EmitError, EmitCompleted
  <2>2. UNCHANGED <<writes, decisions>>
    BY <1>9 DEF EmitError, EmitCompleted, agentVars, loopVars
  <2>3. Signal(kind) \in AgentEvent /\ Signal(kind).kind = kind
    BY SignalFields DEF EventKinds
  <2>4. LensTold' /\ \A id : Asked(id) => Asked(id)'
    BY <2>1, <2>2, <2>3, Queued DEF EmitAnyway, Spoken
  <2>5. DecidedAsked'
    BY <2>2, <2>4 DEF Spoken, DecidedAsked, Asked
  <2> QED BY <2>1, <2>4, <2>5 DEF EmitAnyway, Spoken, Waiting
<1>10. CASE \/ InteractRejects \/ StreamCancelled \/ PumpSends \/ PumpFails \/ PumpEnds
            \/ EmitWaits \/ ReadMessage \/ ReadEnd \/ ReaderCloses \/ ReaderCancels
            \/ HostStep \/ UNCHANGED vars
  <2>1. UNCHANGED <<writes, runner, loopVars, grants>>
    BY <1>10 DEF InteractRejects, StreamCancelled, PumpSends, PumpFails, PumpEnds, EmitWaits,
       ReadMessage, ReadEnd, ReaderCloses, ReaderCancels, HostStep, agentVars, vars
  <2>2. UNCHANGED events
    BY <1>10, HostMoves DEF InteractRejects, StreamCancelled, PumpSends, PumpFails, PumpEnds,
       Transmit, EmitWaits, ReadMessage, ReadEnd, ReaderCloses, ReaderCancels, HostStep,
       streamVars, vars, IInv, TypeOK
  <2>3. DecidedAsked' BY <2>1, <2>2 DEF Spoken, DecidedAsked, Asked, loopVars
  <2>4. LensTold' BY <2>1, <2>2 DEF Spoken, LensTold
  <2>5. runner' \in {"register"} \cup Waiting => Asked(Call)'
    BY <2>1, <2>2 DEF Spoken, Asked, Call, loopVars
  <2>6. runner' = "announce" => (LensWrite(grants[1], TRUE) \in writes)'
                                /\ NotTold(By(grants[1]), grants[1])'
    BY <2>1, <2>2 DEF Spoken, LensWrite, NotTold, By, loopVars
  <2> QED BY <2>1, <2>2, <2>3, <2>4, <2>5, <2>6 DEF Spoken
<1> QED
  BY <1>1, <1>2, <1>3, <1>4, <1>5, <1>6, <1>7, <1>8, <1>9, <1>10, NextCases

(* A successful Emit is a step of the turn that queues the same event. *)
LEMMA EmitQueues ==
  ASSUME NEW e, EmitOk(e), UNCHANGED <<msgs, writes>>
  PROVE  Turn!Queue(e)
BY DEF EmitOk, Turn!Queue

(* Every step of the sidecar is a step of the turn or changes nothing of it. *)
LEMMA TurnStep ==
  ASSUME IInv, TurnInv, [Next]_vars
  PROVE  [Turn!Next]_(Turn!turnVars)
<1> USE DEF TurnInv
<1>o. runner \notin {"idle", "started", "closing", "done"} => Turn!Begun /\ ~Turn!Over
  BY DEF Spoken, Turn!Begun, Turn!Over, Terminal, Turn!Terminal
<1>u. ASSUME UNCHANGED <<msgs, events, writes>> PROVE UNCHANGED Turn!turnVars
  BY <1>u DEF Turn!turnVars
<1>e. ASSUME EmitErr, UNCHANGED <<msgs, writes>> PROVE UNCHANGED Turn!turnVars
  BY <1>e, <1>u DEF EmitErr
<1>1. CASE EmitStarted
  <2>1. UNCHANGED <<msgs, writes>> /\ runner = "started"
        /\ (EmitErr \/ EmitOk(Signal("started")))
    BY <1>1 DEF EmitStarted, EmitThen, OtherThanEmit, agentVars
  <2>2. CASE EmitOk(Signal("started"))
    <3>1. Turn!Queue(Signal("started")) BY <2>1, <2>2, EmitQueues
    <3>2. Turn!Start
      BY <2>1, <3>1 DEF Turn!Start, Turn!Begun, Heard, Spoken, Signal, Event,
         Turn!Signal, Turn!Event
    <3> QED BY <3>2 DEF Turn!Next
  <2> QED BY <2>1, <2>2, <1>e
<1>2. CASE EmitText
  <2>1. UNCHANGED <<msgs, writes>> /\ runner = "run"
        /\ (EmitErr \/ EmitOk(Signal("text")))
    BY <1>2 DEF EmitText, EmitThen, OtherThanEmit, agentVars
  <2>2. CASE EmitOk(Signal("text"))
    <3>1. Turn!Queue(Signal("text")) BY <2>1, <2>2, EmitQueues
    <3>2. Turn!Say
      BY <2>1, <3>1, <1>o DEF Turn!Say, Signal, Event, Turn!Signal, Turn!Event
    <3> QED BY <3>2 DEF Turn!Next
  <2> QED BY <2>1, <2>2, <1>e
<1>3. CASE EmitRequest
  <2>1. UNCHANGED <<msgs, writes>> /\ runner = "ask"
        /\ (EmitErr \/ EmitOk(Request(Call)))
    BY <1>3 DEF EmitRequest, EmitThen, OtherThanEmit
  <2>2. CASE EmitOk(Request(Call))
    <3>1. Turn!Queue(Request(Call)) BY <2>1, <2>2, EmitQueues
    <3>2. Turn!Ask(Call)
      BY <2>1, <3>1, <1>o DEF Turn!Ask, Request, Event, Turn!Request, Turn!Event
    <3>3. Call \in CallIds BY <2>1 DEF IInv, TypeOK, WaitInv, Asking, Call
    <3> QED BY <3>2, <3>3 DEF Turn!Next
  <2> QED BY <2>1, <2>2, <1>e
<1>4. CASE RunTool
  <2> DEFINE a == grants[1]
             id == requests[a]
  <2>1. /\ UNCHANGED <<msgs, events>> /\ runner = "run" /\ grants # <<>>
        /\ \/ UNCHANGED writes
           \/ \E whole \in BOOLEAN : writes' = writes \cup {LensWrite(Head(grants), whole)}
    BY <1>4 DEF RunTool, OtherThanRunner, streamVars
  <2>2. CASE \E whole \in BOOLEAN : writes' = writes \cup {LensWrite(Head(grants), whole)}
    <3>1. /\ Head(grants) = a /\ a \in Places /\ id \in CallIds /\ By(a) # 0
          /\ Approves(msgs, By(a), id)
          /\ \A w \in writes : w.by = By(a) => w.at # a /\ id \in Repeated
      BY <2>1, FirstGrant
    <3>2. Asked(id) BY <3>1 DEF Spoken, DecidedAsked, By
    <3>3. \E i \in Turn!EventsOf("request") : events[i].id = id
      BY <3>2 DEF Asked, Turn!EventsOf
    <3>4. Turn!Approves(msgs, By(a), id) /\ By(a) \in 1..Len(msgs)
      BY <3>1 DEF Approves, Turn!Approves
    <3>5. \E whole \in BOOLEAN : writes' = writes \cup {Turn!Write(id, By(a), a, whole)}
      BY <2>2, <3>1 DEF LensWrite, Write, Turn!Write, By
    <3> HIDE DEF id, a
    <3>6. Turn!WriteLens(id, By(a), a)
      BY <2>1, <3>1, <3>3, <3>4, <3>5 DEF Turn!WriteLens
    <3> QED BY <3>1, <3>4, <3>6 DEF Turn!Next
  <2> QED BY <2>1, <2>2, <1>u
<1>5. CASE EmitLens
  <2> DEFINE a == grants[1]
             id == requests[a]
  <2>1. UNCHANGED <<msgs, writes>> /\ runner = "announce" /\ grants # <<>>
        /\ (EmitErr \/ EmitOk(Lens(requests[Head(grants)], By(Head(grants)), Head(grants))))
    BY <1>5 DEF EmitLens, EmitAnyway, OtherThanEmit, IInv, WaitInv, LensWrite, Write, By
  <2>2. CASE EmitOk(Lens(id, By(a), a))
    <3>1. Turn!Queue(Lens(id, By(a), a)) BY <2>1, <2>2, EmitQueues
    <3>2. /\ a \in Places /\ id \in CallIds /\ By(a) \in 1..Len(msgs)
      BY <2>1, FirstGrant DEF Approves
    <3>3. Write(id, By(a), a, TRUE) \in writes /\ NotTold(By(a), a)
      BY <2>1 DEF Spoken, LensWrite, By
    <3> HIDE DEF id, a
    <3>4. Turn!Announce(id, By(a), a)
      BY <2>1, <3>1, <3>3, <1>o DEF Turn!Announce, Turn!EventsOf, NotTold, Write,
         Turn!Write, Lens, Event, Turn!Lens, Turn!Event
    <3> QED BY <3>2, <3>4 DEF Turn!Next
  <2>3. Head(grants) = a BY <2>1, FirstGrant
  <2> QED BY <2>1, <2>2, <2>3, <1>e
<1>6. CASE EmitError \/ EmitCompleted
  <2>1. PICK kind \in Terminal : EmitOk(Signal(kind)) \/ EmitErr
    BY <1>6 DEF EmitError, EmitCompleted, EmitAnyway, Terminal
  <2>2. UNCHANGED <<msgs, writes>> /\ runner \in {"fail", "complete"}
    BY <1>6 DEF EmitError, EmitCompleted, OtherThanEmit, agentVars
  <2>3. CASE EmitOk(Signal(kind))
    <3>1. Turn!Queue(Signal(kind)) BY <2>2, <2>3, EmitQueues
    <3>2. Turn!End
      BY <2>2, <3>1, <1>o DEF Turn!End, Terminal, Turn!Terminal, Signal, Event,
         Turn!Signal, Turn!Event
    <3> QED BY <3>2 DEF Turn!Next
  <2> QED BY <2>1, <2>2, <2>3, <1>e
<1>7. CASE HostStep
  <2>1. UNCHANGED <<events, writes>>
    BY <1>7, HostMoves DEF HostStep, agentVars, IInv, TypeOK
  <2>2. CASE \E m \in Message : msgs' = Append(msgs, m)
    <3>1. Turn!Hear BY <2>1, <2>2 DEF Turn!Hear, Message, Turn!Message
    <3> QED BY <3>1 DEF Turn!Next
  <2> QED BY <1>7, <2>1, <2>2, <1>u, HostAppends DEF HostStep, IInv, TypeOK
<1>8. CASE \/ InteractRejects \/ InteractAccepts \/ StreamCancelled \/ PumpSends
           \/ PumpFails \/ PumpEnds \/ AgentInitFails \/ TurnLoop \/ RunEnds \/ RunFails
           \/ AnswerAgain \/ Register \/ TakeDecision \/ Leave \/ EmitWaits \/ RunnerCloses
           \/ ReadMessage \/ ReadEnd \/ ReaderCloses \/ ReaderCancels \/ UNCHANGED vars
  <2>1. UNCHANGED <<msgs, events, writes>>
    BY <1>8 DEF InteractRejects, InteractAccepts, StreamCancelled, PumpSends, PumpFails,
       PumpEnds, Transmit, AgentInitFails, TurnLoop, RunEnds, RunFails, AnswerAgain,
       Register, TakeDecision, Leave, EmitWaits, RunnerCloses, ReadMessage, ReadEnd, ReaderCloses,
       ReaderCancels, OtherThanRunner, agentVars, streamVars, vars
  <2> QED BY <2>1, <1>u
<1> QED
  BY <1>1, <1>2, <1>3, <1>4, <1>5, <1>6, <1>7, <1>8, NextCases

(* The Go sidecar keeps the same contract, for any host, any batches and any *)
(* capacity: although it writes a run after the decisions were collected,    *)
(* each write is under a decision on its id, which was asked about; two      *)
(* writes share a decision only for different requests, under an id that a   *)
(* run may repeat; each complete write is announced at most once, and        *)
(* nothing else is.                                                          *)
THEOREM ImplementsAgentTurn == Spec => TurnHolds
<1>1. Init => TurnInv
  BY DEF Init, StreamInit, TurnInv, Heard, Spoken, DecidedAsked, Undecided, LensTold,
     Waiting
<1>2. IInv /\ TurnInv /\ [Next]_vars => TurnInv'
  BY HeardStep, SpokenStep DEF TurnInv
<1>3. Init => Turn!Init
  BY DEF Init, StreamInit, Turn!Init
<1>4. IInv /\ TurnInv /\ [Next]_vars => [Turn!Next]_(Turn!turnVars)
  BY TurnStep
<1> QED BY <1>1, <1>2, <1>3, <1>4, Invariance, PTL DEF Spec, TurnHolds, Turn!Spec
=============================================================================
