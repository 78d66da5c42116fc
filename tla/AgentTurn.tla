----------------------------- MODULE AgentTurn -----------------------------
(***************************************************************************)
(* What every sidecar promises about one turn, whatever language it is     *)
(* written in: the grammar of the events it queues, that nothing is        *)
(* written to the mind without an approval, which pays for one write only  *)
(* unless a run repeats its call id, and that a LensChanged announces      *)
(* exactly a write that happened, once. It is the contract                 *)
(* agent_runtime.rs relies on, stated over the two streams of the call and *)
(* the writes to disk. The sidecars' modules implement it.                 *)
(***************************************************************************)
EXTENDS ChamberProtocol

CONSTANTS
  Places,  \* where a request can stand among those of its run
  Repeated \* the call ids that several requests of one run may share

VARIABLES
  msgs,   \* the HostMessages of the call so far
  events, \* the AgentEvents of the call so far
  writes  \* the lens writes of the call so far

turnVars == <<msgs, events, writes>>

Init == msgs = <<>> /\ events = <<>> /\ writes = {}

Begun == events # <<>>
Over == Begun /\ events[Len(events)].kind \in Terminal

EventsOf(kind) == {i \in DOMAIN events : events[i].kind = kind}

(* The host adds a message. *)
Hear ==
  /\ \E m \in Message : msgs' = Append(msgs, m)
  /\ UNCHANGED <<events, writes>>

Queue(event) == events' = Append(events, event) /\ UNCHANGED <<msgs, writes>>

(* A turn begins once its prompt has arrived. *)
Start == ~Begun /\ msgs # <<>> /\ msgs[1].kind = "prompt" /\ Queue(Signal("started"))

Say == Begun /\ ~Over /\ Queue(Signal("text"))

Ask(id) == Begun /\ ~Over /\ Queue(Request(id))

(* A tool call touches the disk, completely or not, under an approval of its *)
(* id, which was asked for. Two writes share an approval only for different  *)
(* requests, and only under an id that a run may ask for twice.              *)
WriteLens(id, k, at) ==
  /\ Approves(msgs, k, id)
  /\ \E i \in EventsOf("request") : events[i].id = id
  /\ \A w \in writes : w.by = k => w.at # at /\ id \in Repeated
  /\ \E whole \in BOOLEAN : writes' = writes \cup {Write(id, k, at, whole)}
  /\ UNCHANGED <<msgs, events>>

(* A complete write is announced, once. *)
Announce(id, k, at) ==
  /\ Begun /\ ~Over
  /\ Write(id, k, at, TRUE) \in writes
  /\ \A i \in EventsOf("lens") : ~(events[i].by = k /\ events[i].at = at)
  /\ Queue(Lens(id, k, at))

End == Begun /\ ~Over /\ \E kind \in Terminal : Queue(Signal(kind))

Next ==
  \/ Hear \/ Start \/ Say \/ End
  \/ \E id \in CallIds :
       \/ Ask(id)
       \/ \E k \in 1..Len(msgs), at \in Places : WriteLens(id, k, at) \/ Announce(id, k, at)

Spec == Init /\ [][Next]_turnVars
=============================================================================
