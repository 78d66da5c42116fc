------------------------------ MODULE LensFiles ------------------------------
(***************************************************************************)
(* The files of the lenses, as the tool calls of the turns write them, and *)
(* what the host shows of them. A write is two files, each of which is     *)
(* truncated when it is opened; nothing is renamed and nothing is locked.  *)
(*                                                                         *)
(* Turns overlap: those of several sessions, and those that were cut off,  *)
(* whose writes go on. In Python so do the calls of one turn, whose writes *)
(* are in threads; the other two sidecars run one call after the other.    *)
(***************************************************************************)
EXTENDS LensValidation

CONSTANTS
  Kinds,     \* the sidecars looked at
  Scenarios, \* the calls there may be: sequences of a turn and a lens each
  MayFail    \* whether writes may fail

ASSUME FilesAssumption ==
  /\ Kinds \subseteq {"rust", "go", "python"} /\ MayFail \in BOOLEAN
  /\ \A s \in Scenarios :
       /\ s \in Seq([turn : Nat, lens : Lens])
       /\ \A i \in DOMAIN s : s[i].lens.html.bytes > 0

VARIABLES
  kind,     \* the sidecar
  calls,    \* the scenario
  pc,       \* of each call
  turn,     \* "running", "over" or "cut"
  queue,    \* each turn's announcements on their way to the host
  html,     \* index.html of each id: the call each of its blocks comes from
  manifest, \* view.json of each id, likewise
  shown,    \* the call whose lens was the last of its id to be shown, or 0
  raced     \* ids that were not left to one call from the first write to the
            \* showing since (history)

vars == <<kind, calls, pc, turn, queue, html, manifest, shown, raced>>

Calls == DOMAIN calls
Id(c) == calls[c].lens.id
Turn(c) == calls[c].turn
Ids == {Id(c) : c \in Calls}
Turns == {Turn(c) : c \in Calls}

Busy == {"html", "half", "manifest", "written", "queued"}

Types ==
  /\ kind \in Kinds /\ calls \in Scenarios
  /\ pc \in [Calls -> {"idle", "refused", "valid", "failed", "lost", "shown", "unshown"}
                        \cup Busy]
  /\ turn \in [Turns -> {"running", "over", "cut"}]
  /\ queue \in [Turns -> Seq(Calls)]
  /\ html \in [Ids -> Seq(Calls)] /\ manifest \in [Ids -> Seq(Calls)]
  /\ shown \in [Ids -> Calls \cup {0}] /\ raced \subseteq Ids

(* A queue has calls of its turn that are being announced. *)
QueueMatches(t) ==
  \A i \in DOMAIN queue[t] : pc[queue[t][i]] = "queued" /\ Turn(queue[t][i]) = t

TypeOK == Types /\ \A t \in Turns : QueueMatches(t)

Init ==
  /\ kind \in Kinds /\ calls \in Scenarios
  /\ pc = [c \in Calls |-> "idle"] /\ turn = [t \in Turns |-> "running"]
  /\ queue = [t \in Turns |-> <<>>]
  /\ html = [id \in Ids |-> <<>>] /\ manifest = [id \in Ids |-> <<>>]
  /\ shown = [id \in Ids |-> 0] /\ raced = {}

-----------------------------------------------------------------------------
(* A call of lens_upsert. *)

Goto(c, state) == pc' = [pc EXCEPT ![c] = state]

Sizes(c) == [html |-> calls[c].lens.html.bytes,
             manifest |-> Bytes(calls[c].lens.name) + Bytes(calls[c].lens.icon)]

Whole(c, size) == [i \in 1..size |-> c]

\* A write at the start of a file: what was there beyond it stays.
Over(file, c, size) ==
  [i \in 1..(IF size > Len(file) THEN size ELSE Len(file)) |->
     IF i <= size THEN c ELSE file[i]]

SidecarValidate(lens) ==
  CASE kind = "rust" -> RustValidate(lens)
    [] kind = "go" -> GoValidate(lens)
    [] kind = "python" -> PyValidate(lens)

(* In Rust a call that fails is the end of its turn. *)
AfterFailure(c) ==
  turn' = IF kind = "rust" /\ turn[Turn(c)] = "running"
            THEN [turn EXCEPT ![Turn(c)] = "over"] ELSE turn

Validate(c) ==
  /\ pc[c] = "idle" /\ turn[Turn(c)] = "running"
  /\ kind = "python" \/
     \A d \in Calls : Turn(d) = Turn(c) => pc[d] \notin (Busy \ {"queued"}) \cup {"valid"}
  /\ \/ /\ SidecarValidate(calls[c].lens) = "ok"
        /\ Goto(c, "valid") /\ UNCHANGED turn
     \/ /\ SidecarValidate(calls[c].lens) # "ok"
        /\ Goto(c, "refused") /\ AfterFailure(c)
  /\ UNCHANGED <<kind, calls, queue, html, manifest, shown, raced>>

\* Mutant of OpenHtml: a file that is opened without truncating it.
OpenHtmlUntruncated(c) ==
  /\ pc[c] = "valid" /\ Goto(c, "html")
  /\ raced' = IF \E d \in Calls : Id(d) = Id(c) /\ pc[d] \in Busy
                THEN raced \cup {Id(c)} ELSE raced \ {Id(c)}
  /\ UNCHANGED <<kind, calls, turn, queue, html, manifest, shown>>

OpenHtml(c) ==
  /\ pc[c] = "valid" /\ Goto(c, "html")
  /\ html' = [html EXCEPT ![Id(c)] = <<>>]
  /\ raced' = IF \E d \in Calls : Id(d) = Id(c) /\ pc[d] \in Busy
                THEN raced \cup {Id(c)} ELSE raced \ {Id(c)}
  /\ UNCHANGED <<kind, calls, turn, queue, manifest, shown>>

WriteHtml(c) ==
  /\ pc[c] = "html" /\ Goto(c, "half")
  /\ html' = [html EXCEPT ![Id(c)] = Over(@, c, Sizes(c).html)]
  /\ UNCHANGED <<kind, calls, turn, queue, manifest, shown, raced>>

OpenManifest(c) ==
  /\ pc[c] = "half" /\ Goto(c, "manifest")
  /\ manifest' = [manifest EXCEPT ![Id(c)] = <<>>]
  /\ UNCHANGED <<kind, calls, turn, queue, html, shown, raced>>

WriteManifest(c) ==
  /\ pc[c] = "manifest" /\ Goto(c, "written")
  /\ manifest' = [manifest EXCEPT ![Id(c)] = Over(@, c, Sizes(c).manifest)]
  /\ UNCHANGED <<kind, calls, turn, queue, html, shown, raced>>

(* The disk is full, say, or the process has ended. *)
WriteFails(c) ==
  /\ MayFail /\ pc[c] \in {"valid", "html", "half", "manifest"}
  /\ Goto(c, "failed") /\ AfterFailure(c)
  /\ raced' = IF pc[c] = "valid" THEN raced ELSE raced \cup {Id(c)}
  /\ UNCHANGED <<kind, calls, queue, html, manifest, shown>>

(* The announcement, which fails once the call of the turn is cut off. *)
Announce(c) ==
  /\ pc[c] = "written"
  /\ \/ /\ turn[Turn(c)] = "running" /\ Goto(c, "queued")
        /\ queue' = [queue EXCEPT ![Turn(c)] = Append(@, c)]
        /\ UNCHANGED raced
     \/ /\ turn[Turn(c)] # "running" /\ Goto(c, "lost")
        /\ raced' = raced \cup {Id(c)} /\ UNCHANGED queue
  /\ UNCHANGED <<kind, calls, turn, html, manifest, shown>>

-----------------------------------------------------------------------------
(* The host. *)

(* A LensChanged, which is shown if it is valid. *)
Relay(t) ==
  /\ turn[t] # "cut" /\ queue[t] # <<>>
  /\ queue' = [queue EXCEPT ![t] = Tail(@)]
  /\ LET c == Head(queue[t]) IN
       \/ /\ HostValidate(calls[c].lens) = "ok"
          /\ Goto(c, "shown") /\ shown' = [shown EXCEPT ![Id(c)] = c]
       \/ /\ HostValidate(calls[c].lens) # "ok"
          /\ Goto(c, "unshown") /\ UNCHANGED shown
  /\ UNCHANGED <<kind, calls, turn, html, manifest, raced>>

TurnEnds(t) ==
  /\ turn[t] = "running"
  /\ \A c \in Calls : Turn(c) = t => pc[c] \notin (Busy \ {"queued"}) \cup {"valid"}
  /\ turn' = [turn EXCEPT ![t] = "over"]
  /\ UNCHANGED <<kind, calls, pc, queue, html, manifest, shown, raced>>

\* Mutant of CutTurn: the host goes on with what is under way.
CutTurnLater(t) ==
  /\ turn[t] # "cut"
  /\ turn' = [turn EXCEPT ![t] = "cut"]
  /\ pc' = [c \in Calls |->
              IF Turn(c) = t /\ pc[c] = "queued" THEN "lost" ELSE pc[c]]
  /\ raced' = raced \cup {Id(c) : c \in {d \in Calls : Turn(d) = t /\ pc[d] = "queued"}}
  /\ UNCHANGED <<kind, calls, queue, html, manifest, shown>>

(* The call is cut off, by either side. Announcements under way are lost. *)
CutTurn(t) ==
  /\ turn[t] # "cut"
  /\ turn' = [turn EXCEPT ![t] = "cut"] /\ queue' = [queue EXCEPT ![t] = <<>>]
  /\ pc' = [c \in Calls |->
              IF Turn(c) = t /\ pc[c] = "queued" THEN "lost" ELSE pc[c]]
  /\ raced' = raced \cup {Id(c) : c \in {d \in Calls : Turn(d) = t /\ pc[d] = "queued"}}
  /\ UNCHANGED <<kind, calls, html, manifest, shown>>

Next ==
  \/ \E c \in Calls :
       \/ Validate(c) \/ OpenHtml(c) \/ WriteHtml(c) \/ OpenManifest(c)
       \/ WriteManifest(c) \/ WriteFails(c) \/ Announce(c)
  \/ \E t \in Turns : Relay(t) \/ TurnEnds(t) \/ CutTurn(t)

Spec == Init /\ [][Next]_vars

-----------------------------------------------------------------------------
(* Properties. *)

\* Both files are those of this call, or, for 0, there are none.
OnDisk(id, c) ==
  IF c = 0 THEN html[id] = <<>> /\ manifest[id] = <<>>
  ELSE html[id] = Whole(c, Sizes(c).html) /\ manifest[id] = Whole(c, Sizes(c).manifest)

Quiet(id) == \A c \in Calls : Id(c) = id => pc[c] \notin Busy

(* Once nobody is at it, a lens on disk is, in both files, the one that is   *)
(* shown; and whatever calls in each other's way, calls that failed and      *)
(* turns that were cut off have made of it, one call that is left alone      *)
(* repairs it.                                                               *)
DiskSettles == \A id \in Ids \ raced : Quiet(id) => OnDisk(id, shown[id])

(* What a sidecar found good enough to write, the host finds good enough to  *)
(* show: nothing that was announced is refused.                              *)
WrittenIsRendered == \A c \in Calls : pc[c] # "unshown"

(* The smoke test's assertion after a completed turn, agent-smoke.rs: the    *)
(* HTML on disk is that of the last event. Stated of all turns.              *)
SmokeMatches ==
  (\A t \in Turns : turn[t] = "over" /\ queue[t] = <<>>) =>
    \A id \in Ids : shown[id] # 0 =>
      html[id] = Whole(shown[id], Sizes(shown[id]).html)
=============================================================================
