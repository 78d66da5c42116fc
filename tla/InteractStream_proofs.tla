----------------------- MODULE InteractStream_proofs -----------------------
(***************************************************************************)
(* Lemmas about one call that the proofs of the three sidecars share: what *)
(* a step of the host leaves alone, and what one more event changes.       *)
(***************************************************************************)
EXTENDS InteractStream, SequenceTheorems, TLAPS

(* The host answers what it has received: without it an answer had no id.  *)
AnswersAnEvent == host = "answering" => delivered # 0

(* An event or a message built by the protocol's operators is one of its     *)
(* records, with the fields it was given.                                    *)
LEMMA EventFields ==
  ASSUME NEW kind \in EventKinds, NEW id \in CallIds \cup {NoCall}, NEW by \in Nat,
         NEW at \in Nat
  PROVE  /\ Event(kind, id, by, at) \in AgentEvent
         /\ Event(kind, id, by, at).kind = kind
         /\ Event(kind, id, by, at).id = id
         /\ Event(kind, id, by, at).by = by
         /\ Event(kind, id, by, at).at = at
BY DEF Event, AgentEvent

LEMMA SignalFields ==
  ASSUME NEW kind \in EventKinds
  PROVE  Signal(kind) \in AgentEvent /\ Signal(kind).kind = kind
BY EventFields DEF Signal

LEMMA RequestFields ==
  ASSUME NEW id \in CallIds
  PROVE  Request(id) \in AgentEvent /\ Request(id).kind = "request" /\ Request(id).id = id
BY EventFields DEF Request, EventKinds

LEMMA LensFields ==
  ASSUME NEW id \in CallIds, NEW by \in Nat, NEW at \in Nat
  PROVE  /\ Lens(id, by, at) \in AgentEvent /\ Lens(id, by, at).kind = "lens"
         /\ Lens(id, by, at).by = by /\ Lens(id, by, at).at = at
BY EventFields DEF Lens, EventKinds

(* What one more event on the response stream changes. *)
LEMMA OneMoreEvent ==
  ASSUME NEW s \in Seq(AgentEvent), NEW e \in AgentEvent, NEW t, t = Append(s, e)
  PROVE  /\ t \in Seq(AgentEvent) /\ Len(t) = Len(s) + 1
         /\ t # <<>> /\ t[Len(t)] = e
         /\ Len(t) \in DOMAIN t
         /\ \A i \in DOMAIN s : i \in DOMAIN t /\ t[i] = s[i]
         /\ \A i \in DOMAIN t : i \in DOMAIN s \/ t[i] = e
OBVIOUS

(* A queue from both its ends. *)
LEMMA QueueHead ==
  ASSUME NEW S, NEW s \in Seq(S), s # <<>>
  PROVE  /\ 1 \in DOMAIN s /\ Head(s) = s[1] /\ Head(s) \in S
         /\ Tail(s) \in Seq(S)
         /\ Len(Tail(s)) = Len(s) - 1
         /\ \A k \in DOMAIN Tail(s) : k + 1 \in DOMAIN s /\ Tail(s)[k] = s[k + 1]
<1>1. Len(s) \in Nat \ {0} /\ DOMAIN s = 1..Len(s) /\ Head(s) = s[1] OBVIOUS
<1>2. /\ Head(s) \in S /\ Tail(s) \in Seq(S) /\ Len(Tail(s)) = Len(s) - 1
      /\ \A k \in 1..Len(Tail(s)) : Tail(s)[k] = s[k + 1]
  BY HeadTailProperties
<1>3. DOMAIN Tail(s) = 1..(Len(s) - 1) BY <1>2
<1> QED BY <1>1, <1>2, <1>3

LEMMA QueueAppend ==
  ASSUME NEW S, NEW s \in Seq(S), NEW x \in S, NEW t, t = Append(s, x)
  PROVE  /\ t \in Seq(S) /\ Len(t) = Len(s) + 1
         /\ \A k \in DOMAIN s : k \in DOMAIN t /\ t[k] = s[k]
         /\ Len(t) \in DOMAIN t /\ t[Len(t)] = x
         /\ \A k \in DOMAIN t : k \in DOMAIN s \/ k = Len(t)
<1>1. t \in Seq(S) /\ Len(t) = Len(s) + 1
  BY AppendProperties
<1>2. t[Len(t)] = x /\ \A k \in 1..Len(s) : t[k] = s[k]
  BY <1>1, AppendProperties
<1>3. DOMAIN t = 1..Len(t) /\ DOMAIN s = 1..Len(s) /\ Len(s) \in Nat
  BY <1>1
<1> QED BY <1>1, <1>2, <1>3

(* The host changes the request stream only by adding a message to it. *)
LEMMA HostAppends ==
  ASSUME StreamTypeOK, AnswersAnEvent, HostNext
  PROVE  msgs' = msgs \/ \E m \in Message : msgs' = Append(msgs, m)
<1> USE NoCallAssumption, StreamAssumption DEF StreamTypeOK
<1>1. CASE HostOpens
  <2>1. Prompt \in Message BY DEF Prompt, Message
  <2> QED BY <1>1, <2>1 DEF HostOpens
<1>2. CASE HostAnswers
  <2>1. delivered \in 1..Len(events) BY <1>2 DEF HostAnswers, AnswersAnEvent
  <2>2. events[delivered] \in AgentEvent BY <2>1
  <2>3. events[delivered].id \in CallIds \cup {NoCall} BY <2>2 DEF AgentEvent
  <2>4. \A outcome \in Outcomes : Decision(outcome, events[delivered].id) \in Message
    BY <2>3 DEF Decision, Message
  <2> QED BY <1>2, <2>4 DEF HostAnswers
<1>3. CASE RogueSends
  BY <1>3 DEF RogueSends
<1>4. CASE HostReceives \/ HostSeesEnd \/ HostCancels \/ LinkFails
  BY <1>4 DEF HostReceives, HostSeesEnd, HostCancels, LinkFails
<1> QED BY <1>1, <1>2, <1>3, <1>4 DEF HostNext

(* A step of the host: the log of messages only grows, what the sidecar owns *)
(* of the streams is untouched, and a connection that is gone stays gone.    *)
LEMMA HostMoves ==
  ASSUME StreamTypeOK, AnswersAnEvent, HostNext
  PROVE  /\ StreamTypeOK' /\ AnswersAnEvent'
         /\ UNCHANGED <<token, read, events, sent, response>>
         /\ link' = "up" => link = "up"
         /\ Len(msgs) <= Len(msgs')
         /\ \A k \in 1..Len(msgs) : k \in 1..Len(msgs') /\ msgs'[k] = msgs[k]
<1> USE DEF StreamTypeOK
<1>1. /\ msgs' \in Seq(Message) /\ Len(msgs) <= Len(msgs')
      /\ \A k \in 1..Len(msgs) : k \in 1..Len(msgs') /\ msgs'[k] = msgs[k]
  <2>1. CASE msgs' = msgs BY <2>1
  <2>2. ASSUME NEW m \in Message, msgs' = Append(msgs, m)
        PROVE  /\ msgs' \in Seq(Message) /\ Len(msgs) <= Len(msgs')
               /\ \A k \in 1..Len(msgs) : k \in 1..Len(msgs') /\ msgs'[k] = msgs[k]
    BY <2>2
  <2> QED BY <2>1, <2>2, HostAppends
<1>2. /\ UNCHANGED <<token, read, events, sent, response>>
      /\ link' = "up" => link = "up"
      /\ link' \in {"up", "dropped", "lost"}
      /\ host' \in {"opening", "receiving", "answering", "finished"}
      /\ delivered' \in 0..sent
      /\ AnswersAnEvent'
  BY DEF HostNext, HostOpens, HostReceives, HostAnswers, HostSeesEnd, HostCancels,
     LinkFails, RogueSends, DropStream, AnswersAnEvent
<1> QED BY <1>1, <1>2
-----------------------------------------------------------------------------
(***************************************************************************)
(* What the response stream has said: a request for a call, a LensChanged  *)
(* for the write that a request led to.                                    *)
(***************************************************************************)
Asked(id) == \E i \in DOMAIN events : events[i].kind = "request" /\ events[i].id = id

NotTold(by, at) ==
  \A i \in DOMAIN events : events[i].kind = "lens" => events[i].by # by \/ events[i].at # at

(* One more event is the last one; requests stay asked, and only a           *)
(* LensChanged tells of a write.                                             *)
LEMMA MoreSaid ==
  ASSUME events \in Seq(AgentEvent), NEW e \in AgentEvent, events' = Append(events, e)
  PROVE  /\ events' # <<>> /\ events'[Len(events')] = e
         /\ \A i \in DOMAIN events' : (i \in DOMAIN events /\ events'[i] = events[i])
                                       \/ events'[i] = e
         /\ \A id : Asked(id) \/ (e.kind = "request" /\ e.id = id) => Asked(id)'
         /\ \A by, at : NotTold(by, at) /\ (e.kind = "lens" => e.by # by \/ e.at # at)
                         => NotTold(by, at)'
<1>1. /\ events' # <<>> /\ events'[Len(events')] = e
      /\ Len(events') \in DOMAIN events'
      /\ \A i \in DOMAIN events : i \in DOMAIN events' /\ events'[i] = events[i]
      /\ \A i \in DOMAIN events' : i \in DOMAIN events \/ events'[i] = e
  BY OneMoreEvent
<1>2. ASSUME NEW id, Asked(id) \/ (e.kind = "request" /\ e.id = id) PROVE Asked(id)'
  BY <1>1, <1>2 DEF Asked
<1>3. ASSUME NEW by, NEW at, NotTold(by, at), e.kind = "lens" => e.by # by \/ e.at # at
      PROVE  NotTold(by, at)'
  BY <1>1, <1>3 DEF NotTold
<1> QED BY <1>1, <1>2, <1>3
=============================================================================
