-------------------------- MODULE LensFiles_proofs --------------------------
(***************************************************************************)
(* Proofs about LensFiles, for any scenarios of calls, limits and sidecar. *)
(***************************************************************************)
EXTENDS LensFiles, FiniteSetTheorems, TLAPS

(* Whatever a sidecar accepts, the host accepts.                             *)
LEMMA SidecarIsStricter ==
  ASSUME Types, NEW lens, SidecarValidate(lens) = "ok"
  PROVE  HostValidate(lens) = "ok"
<1>1. ASSUME Verdict(lens, PythonWhiteSpace) = "ok"
      PROVE  Verdict(lens, WhiteSpace) = "ok"
  BY <1>1 DEF Verdict, TextIsGood, PythonWhiteSpace
<1>2. kind \in {"rust", "go", "python"}
  BY FilesAssumption DEF Types
<1> QED
  BY <1>1, <1>2 DEF SidecarValidate, HostValidate, RustValidate, GoValidate, PyValidate

(* A string has a number of bytes.                                           *)
LEMMA BytesType ==
  ASSUME NEW s \in Seq(Characters)
  PROVE  Bytes(s) \in Nat
<1> DEFINE wide == {i \in DOMAIN s : s[i] \in {"wide", "widespace"}}
<1>1. IsFiniteSet(1..Len(s))
  BY FS_Interval
<1>2. IsFiniteSet(wide)
  BY <1>1, FS_Subset
<1>3. Cardinality(wide) \in Nat
  BY <1>2, FS_CardinalityType
<1> QED
  BY <1>3 DEF Bytes

(* Calls are numbers other than 0, and have lenses and sizes.                *)
LEMMA CallTypes ==
  ASSUME Types, NEW c \in Calls
  PROVE  /\ c \in Nat \ {0}
         /\ calls[c] \in [turn : Nat, lens : Lens]
         /\ Sizes(c).html \in Nat /\ Sizes(c).manifest \in Nat
         /\ Id(c) \in Ids /\ Turn(c) \in Turns
<1> DEFINE Call == [turn : Nat, lens : Lens]
<1>1. calls \in Seq(Call)
  BY FilesAssumption DEF Types
<1>2. c \in Nat \ {0} /\ calls[c] \in Call
  <2> HIDE DEF Call
  <2> QED
    BY <1>1 DEF Calls
<1>3. calls[c].lens.html.bytes \in Nat
  BY <1>2 DEF Lens, Html
<1>4. Bytes(calls[c].lens.name) \in Nat /\ Bytes(calls[c].lens.icon) \in Nat
  BY <1>2, BytesType DEF Lens
<1> QED
  BY <1>2, <1>3, <1>4 DEF Sizes, Ids, Turns, Id, Turn

(* Writing to an empty file makes it the writer's.                           *)
LEMMA OverEmpty ==
  ASSUME NEW c, NEW size \in Nat
  PROVE  Over(<<>>, c, size) = Whole(c, size)
BY DEF Over, Whole

LEMMA OverType ==
  ASSUME NEW c \in Calls, NEW size \in Nat, NEW file \in Seq(Calls)
  PROVE  Over(file, c, size) \in Seq(Calls)
<1> DEFINE n == IF size > Len(file) THEN size ELSE Len(file)
<1>1. n \in Nat
  OBVIOUS
<1>2. \A i \in 1..n : (IF i <= size THEN c ELSE file[i]) \in Calls
  OBVIOUS
<1> HIDE DEF n
<1>3. [i \in 1..n |-> IF i <= size THEN c ELSE file[i]] \in Seq(Calls)
  BY <1>1, <1>2
<1> QED
  BY <1>3 DEF Over, n

-----------------------------------------------------------------------------
(* Types. *)

(* The steps of one call, and of one turn.                                   *)
CallNext(c) ==
  \/ Validate(c) \/ OpenHtml(c) \/ WriteHtml(c) \/ OpenManifest(c)
  \/ WriteManifest(c) \/ WriteFails(c) \/ Announce(c)

TurnNext(t) == Relay(t) \/ TurnEnds(t) \/ CutTurn(t)

(* No step changes the scenario.                                             *)
LEMMA ScenarioStays ==
  ASSUME [Next]_vars
  PROVE  calls' = calls /\ kind' = kind
BY DEF Next, vars, Validate, OpenHtml, WriteHtml, OpenManifest, WriteManifest,
       WriteFails, Announce, Relay, TurnEnds, CutTurn

LEMMA TypesStep ==
  ASSUME Types, [Next]_vars
  PROVE  Types'
<1>0. /\ calls' = calls /\ kind' = kind /\ Calls' = Calls
      /\ Turns' = Turns /\ Ids' = Ids
  BY ScenarioStays DEF Calls, Turns, Ids, Turn, Id
<1> USE <1>0
<1>1. CASE UNCHANGED vars
  BY <1>1 DEF vars, Types
<1>2. ASSUME NEW c \in Calls, Validate(c) PROVE Types'
  BY <1>2 DEF Types, Validate, Goto, AfterFailure, Busy
<1>3. ASSUME NEW c \in Calls, OpenHtml(c) PROVE Types'
  BY <1>3, CallTypes DEF Types, OpenHtml, Goto, Busy
<1>4. ASSUME NEW c \in Calls, WriteHtml(c) PROVE Types'
  <2>1. Over(html[Id(c)], c, Sizes(c).html) \in Seq(Calls)
    BY CallTypes, OverType DEF Types
  <2> QED
    BY <1>4, <2>1 DEF Types, WriteHtml, Goto, Busy
<1>5. ASSUME NEW c \in Calls, OpenManifest(c) PROVE Types'
  BY <1>5, CallTypes DEF Types, OpenManifest, Goto, Busy
<1>6. ASSUME NEW c \in Calls, WriteManifest(c) PROVE Types'
  <2>1. Over(manifest[Id(c)], c, Sizes(c).manifest) \in Seq(Calls)
    BY CallTypes, OverType DEF Types
  <2> QED
    BY <1>6, <2>1 DEF Types, WriteManifest, Goto, Busy
<1>7. ASSUME NEW c \in Calls, WriteFails(c) PROVE Types'
  BY <1>7, CallTypes DEF Types, WriteFails, Goto, AfterFailure, Busy
<1>8. ASSUME NEW c \in Calls, Announce(c) PROVE Types'
  <2>1. Turn(c) \in Turns /\ Id(c) \in Ids
    BY CallTypes
  <2>2. CASE turn[Turn(c)] = "running"
    <3>1. Append(queue[Turn(c)], c) \in Seq(Calls)
      BY <2>1 DEF Types
    <3> QED
      BY <1>8, <2>1, <2>2, <3>1 DEF Types, Announce, Goto, Busy
  <2>3. CASE turn[Turn(c)] # "running"
    BY <1>8, <2>1, <2>3 DEF Types, Announce, Goto, Busy
  <2> QED
    BY <2>2, <2>3
<1>9. ASSUME NEW t \in Turns, Relay(t) PROVE Types'
  <2>1. Head(queue[t]) \in Calls /\ Tail(queue[t]) \in Seq(Calls)
    BY <1>9 DEF Types, Relay
  <2> QED
    BY <1>9, <2>1 DEF Types, Relay, Goto, Busy
<1>10. ASSUME NEW t \in Turns, TurnEnds(t) PROVE Types'
  BY <1>10 DEF Types, TurnEnds
<1>11. ASSUME NEW t \in Turns, CutTurn(t) PROVE Types'
  <2>1. raced' \subseteq Ids
    BY <1>11, CallTypes DEF Types, CutTurn
  <2> QED
    BY <1>11, <2>1 DEF Types, CutTurn, Busy
<1> QED
  BY <1>1, <1>2, <1>3, <1>4, <1>5, <1>6, <1>7, <1>8, <1>9, <1>10, <1>11 DEF Next

-----------------------------------------------------------------------------
(* Queues. *)

NoRepeats(t) ==
  \A i, j \in DOMAIN queue[t] : queue[t][i] = queue[t][j] => i = j

QueueInv == \A t \in Turns : QueueMatches(t) /\ NoRepeats(t)

(* A queue of calls stays as it is if no call in it moves.                   *)
LEMMA QueueStays ==
  ASSUME Types, QueueInv, [Next]_vars, NEW t \in Turns,
         queue'[t] = queue[t],
         \A c \in Calls : pc[c] = "queued" /\ Turn(c) = t => pc'[c] = "queued"
  PROVE  QueueMatches(t)' /\ NoRepeats(t)'
<1>1. \A c : Turn(c)' = Turn(c)
  BY ScenarioStays DEF Turn
<1>2. \A i \in DOMAIN queue[t] : queue[t][i] \in Calls
  BY DEF Types
<1> QED
  BY <1>1, <1>2 DEF QueueInv, QueueMatches, NoRepeats

LEMMA QueueStep ==
  ASSUME Types, QueueInv, [Next]_vars
  PROVE  QueueInv'
<1>0. /\ calls' = calls /\ Turns' = Turns /\ \A c : Turn(c)' = Turn(c)
  BY ScenarioStays DEF Calls, Turns, Turn
<1> SUFFICES ASSUME NEW t \in Turns PROVE QueueMatches(t)' /\ NoRepeats(t)'
  BY <1>0 DEF QueueInv
<1>1. CASE UNCHANGED vars
  BY <1>1, QueueStays DEF vars
<1>2. ASSUME NEW c \in Calls, CallNext(c), ~Announce(c)
      PROVE  QueueMatches(t)' /\ NoRepeats(t)'
  <2>1. queue' = queue /\ pc[c] # "queued" /\ \A d \in Calls \ {c} : pc'[d] = pc[d]
    BY <1>2 DEF CallNext, Types, Goto, Validate, OpenHtml, WriteHtml, OpenManifest,
                WriteManifest, WriteFails
  <2> QED
    BY <2>1, QueueStays
<1>3. ASSUME NEW c \in Calls, Announce(c)
      PROVE  QueueMatches(t)' /\ NoRepeats(t)'
  <2>1. CASE queue'[t] = queue[t]
    BY <1>3, <2>1, QueueStays DEF Types, Announce, Goto
  <2>2. CASE t = Turn(c) /\ turn[t] = "running"
    <3>1. queue'[t] = Append(queue[t], c) /\ pc' = [pc EXCEPT ![c] = "queued"]
      BY <1>3, <2>2 DEF Types, Announce, Goto
    <3>2. \A i \in DOMAIN queue[t] : queue[t][i] \in Calls \ {c}
      BY <1>3 DEF Types, QueueInv, QueueMatches, Announce
    <3>3. queue[t] \in Seq(Calls)
      BY DEF Types
    <3>4. \A i \in DOMAIN queue'[t] :
            \/ i \in DOMAIN queue[t] /\ queue'[t][i] = queue[t][i]
            \/ i = Len(queue[t]) + 1 /\ queue'[t][i] = c
      BY <3>1, <3>3
    <3>5. QueueMatches(t)'
      BY <1>0, <2>2, <3>1, <3>2, <3>4 DEF Types, QueueInv, QueueMatches
    <3>6. NoRepeats(t)'
      BY <3>2, <3>4 DEF QueueInv, NoRepeats
    <3> QED
      BY <3>5, <3>6
  <2> QED
    BY <1>3, <2>1, <2>2 DEF Types, Announce
<1>4. ASSUME NEW u \in Turns, Relay(u)
      PROVE  QueueMatches(t)' /\ NoRepeats(t)'
  <2> DEFINE c == Head(queue[u])
  <2>1. queue[u] \in Seq(Calls) /\ queue[u] # <<>> /\ c = queue[u][1] /\ c \in Calls
    BY <1>4 DEF Types, Relay
  <2>2. pc[c] = "queued" /\ Turn(c) = u
    BY <2>1 DEF QueueInv, QueueMatches
  <2>3. \A d \in Calls \ {c} : pc'[d] = pc[d]
    BY <1>4 DEF Types, Relay, Goto
  <2>4. CASE t # u
    <3>1. queue'[t] = queue[t]
      BY <1>4, <2>4 DEF Types, Relay
    <3> QED
      BY <2>2, <2>3, <2>4, <3>1, QueueStays
  <2>5. CASE t = u
    <3>1. queue'[t] = Tail(queue[t])
      BY <1>4, <2>5 DEF Types, Relay
    <3>2. \A i \in DOMAIN queue'[t] :
            i + 1 \in DOMAIN queue[t] /\ queue'[t][i] = queue[t][i + 1] /\ i \in Nat \ {0}
      BY <2>1, <2>5, <3>1
    <3>3. \A i \in DOMAIN queue'[t] : queue'[t][i] \in Calls \ {c}
      <4>1. 1 \in DOMAIN queue[t]
        BY <2>1, <2>5
      <4> QED
        BY <2>1, <2>5, <3>2, <4>1 DEF QueueInv, NoRepeats
    <3>4. QueueMatches(t)'
      BY <1>0, <2>3, <3>2, <3>3 DEF QueueInv, QueueMatches
    <3>5. NoRepeats(t)'
      BY <3>2 DEF QueueInv, NoRepeats
    <3> QED
      BY <3>4, <3>5
  <2> QED
    BY <2>4, <2>5
<1>5. ASSUME NEW u \in Turns, TurnEnds(u)
      PROVE  QueueMatches(t)' /\ NoRepeats(t)'
  BY <1>5, QueueStays DEF TurnEnds
<1>6. ASSUME NEW u \in Turns, CutTurn(u)
      PROVE  QueueMatches(t)' /\ NoRepeats(t)'
  <2>1. CASE t # u
    BY <1>6, <2>1, QueueStays DEF Types, CutTurn
  <2>2. CASE t = u
    <3>1. queue'[t] = <<>>
      BY <1>6, <2>2 DEF Types, CutTurn
    <3> QED
      BY <3>1 DEF QueueMatches, NoRepeats
  <2> QED
    BY <2>1, <2>2
<1> QED
  BY <1>1, <1>2, <1>3, <1>4, <1>5, <1>6 DEF Next, CallNext

-----------------------------------------------------------------------------
(* The host refuses nothing. *)

(* What has got past its sidecar's validator would get past the host's.      *)
Accepted ==
  \A c \in Calls : pc[c] \notin {"idle", "refused"} =>
    HostValidate(calls[c].lens) = "ok" /\ pc[c] # "unshown"

LEMMA AcceptedStep ==
  ASSUME Types, QueueInv, Accepted, [Next]_vars
  PROVE  Accepted'
<1>0. /\ calls' = calls /\ Calls' = Calls
      /\ \A lens : HostValidate(lens)' = HostValidate(lens)
  BY ScenarioStays DEF Calls, HostValidate, Verdict, IdIsGood, TextIsGood, Bytes
<1>1. CASE UNCHANGED vars
  BY <1>0, <1>1 DEF vars, Accepted
<1>2. ASSUME NEW c \in Calls, Validate(c) PROVE Accepted'
  BY <1>0, <1>2, SidecarIsStricter DEF Types, Accepted, Validate, Goto
<1>3. ASSUME NEW c \in Calls, CallNext(c), ~Validate(c) PROVE Accepted'
  <2>1. /\ pc[c] \notin {"idle", "refused"} /\ pc'[c] # "unshown"
        /\ \A d \in Calls \ {c} : pc'[d] = pc[d]
    BY <1>3 DEF CallNext, Types, Goto, OpenHtml, WriteHtml, OpenManifest,
                WriteManifest, WriteFails, Announce
  <2> QED
    BY <1>0, <2>1 DEF Accepted
<1>4. ASSUME NEW t \in Turns, Relay(t) PROVE Accepted'
  <2> DEFINE c == Head(queue[t])
  <2>1. c \in Calls /\ pc[c] = "queued"
    BY <1>4 DEF Types, QueueInv, QueueMatches, Relay
  <2>2. HostValidate(calls[c].lens) = "ok"
    BY <2>1 DEF Accepted
  <2>3. pc' = [pc EXCEPT ![c] = "shown"]
    BY <1>4, <2>2 DEF Relay, Goto
  <2> QED
    BY <1>0, <2>1, <2>2, <2>3 DEF Types, Accepted
<1>5. ASSUME NEW t \in Turns, TurnEnds(t) PROVE Accepted'
  BY <1>0, <1>5 DEF TurnEnds, Accepted
<1>6. ASSUME NEW t \in Turns, CutTurn(t) PROVE Accepted'
  BY <1>0, <1>6 DEF Types, CutTurn, Accepted
<1> QED
  BY <1>1, <1>2, <1>3, <1>4, <1>5, <1>6 DEF Next, CallNext

-----------------------------------------------------------------------------
(* Disk and host agree. *)

(* At an id that is not raced there is one call at most,                     *)
Alone ==
  \A c, d \in Calls :
    /\ pc[c] \in Busy /\ pc[d] \in Busy
    /\ Id(c) = Id(d) /\ Id(c) \notin raced
    => c = d

(* whose files are as far as the call is.                                    *)
Stage(c) ==
  /\ pc[c] = "html" => html[Id(c)] = <<>>
  /\ pc[c] \in {"half", "manifest", "written", "queued"} =>
       html[Id(c)] = Whole(c, Sizes(c).html)
  /\ pc[c] = "manifest" => manifest[Id(c)] = <<>>
  /\ pc[c] \in {"written", "queued"} => manifest[Id(c)] = Whole(c, Sizes(c).manifest)

DiskInv ==
  /\ Alone
  /\ \A c \in Calls : pc[c] \in Busy /\ Id(c) \notin raced => Stage(c)
  /\ DiskSettles

(* A step that starts no write, and races with no fewer, leaves calls alone. *)
LEMMA AloneStays ==
  ASSUME Alone, [Next]_vars, raced \subseteq raced',
         \A c \in Calls : pc'[c] \in Busy => pc[c] \in Busy
  PROVE  Alone'
<1>1. Calls' = Calls /\ (\A c : Id(c)' = Id(c)) /\ Busy' = Busy
  BY ScenarioStays DEF Calls, Id, Busy
<1> QED
  BY <1>1 DEF Alone

(* A step that leaves an id and its calls as they are.                       *)
LEMMA OthersStay ==
  ASSUME Types, DiskInv, [Next]_vars, NEW id \in Ids, id \notin raced,
         html'[id] = html[id], manifest'[id] = manifest[id], shown'[id] = shown[id],
         \A c \in Calls : Id(c) = id => pc'[c] = pc[c]
  PROVE  /\ \A c \in Calls : Id(c) = id /\ pc'[c] \in Busy => Stage(c)'
         /\ Quiet(id)' => OnDisk(id, shown[id])'
<1>1. /\ Calls' = Calls /\ \A c : Id(c)' = Id(c) /\ Sizes(c)' = Sizes(c)
  BY ScenarioStays DEF Calls, Id, Sizes, Bytes
<1>2. \A c \in Calls : Id(c) = id /\ pc'[c] \in Busy => Stage(c)'
  BY <1>1 DEF DiskInv, Stage, Busy
<1>3. Quiet(id)' => Quiet(id)
  BY <1>1 DEF Quiet, Busy
<1>4. Quiet(id) => OnDisk(id, shown[id])
  BY DEF DiskInv, DiskSettles
<1> QED
  BY <1>1, <1>2, <1>3, <1>4 DEF OnDisk

(* The two conjuncts of DiskInv that are about one id.                       *)
IdSettles(id) ==
  id \notin raced =>
    /\ \A c \in Calls : Id(c) = id /\ pc[c] \in Busy => Stage(c)
    /\ Quiet(id) => OnDisk(id, shown[id])

LEMMA DiskFromIds ==
  ASSUME Types, [Next]_vars, Alone', \A id \in Ids : IdSettles(id)'
  PROVE  DiskInv'
<1>1. Calls' = Calls /\ Ids' = Ids /\ \A c : Id(c)' = Id(c)
  BY ScenarioStays DEF Calls, Ids, Id
<1>2. \A c \in Calls : Id(c) \in Ids
  BY CallTypes
<1> QED
  BY <1>1, <1>2 DEF DiskInv, IdSettles, DiskSettles

(* A step of a call c that is at its files.                                  *)
LEMMA WritingStep ==
  ASSUME Types, DiskInv, [Next]_vars, NEW c \in Calls,
         pc[c] \in Busy, pc'[c] \in Busy, raced' = raced, shown' = shown,
         \A d \in Calls \ {c} : pc'[d] = pc[d],
         \A id \in Ids \ {Id(c)} : html'[id] = html[id] /\ manifest'[id] = manifest[id],
         Id(c) \notin raced => Stage(c)'
  PROVE  DiskInv'
<1>0. /\ Calls' = Calls /\ \A d : Id(d)' = Id(d) /\ Sizes(d)' = Sizes(d)
  BY ScenarioStays DEF Calls, Id, Sizes, Bytes
<1>1. Alone'
  BY AloneStays DEF DiskInv
<1>2. ASSUME NEW id \in Ids PROVE IdSettles(id)'
  <2>1. CASE id # Id(c)
    BY <2>1, <1>0, OthersStay DEF IdSettles
  <2>2. CASE id = Id(c)
    <3>1. \A d \in Calls : id \notin raced /\ Id(d) = id /\ pc'[d] \in Busy => d = c
      BY <2>2 DEF DiskInv, Alone
    <3>2. ~Quiet(id)'
      BY <1>0, <2>2 DEF Quiet, Busy
    <3> QED
      BY <1>0, <2>2, <3>1, <3>2 DEF IdSettles, Busy
  <2> QED
    BY <2>1, <2>2
<1> QED
  BY <1>1, <1>2, DiskFromIds

(* A step of a call c that leaves its id raced.                              *)
LEMMA RacingStep ==
  ASSUME Types, DiskInv, [Next]_vars, NEW c \in Calls,
         pc'[c] \notin Busy, raced' = raced \cup {Id(c)},
         UNCHANGED <<html, manifest, shown>>,
         \A d \in Calls \ {c} : pc'[d] = pc[d]
  PROVE  DiskInv'
<1>1. Alone'
  BY AloneStays DEF DiskInv
<1>2. Calls' = Calls /\ \A d : Id(d)' = Id(d)
  BY ScenarioStays DEF Calls, Id
<1>3. ASSUME NEW id \in Ids PROVE IdSettles(id)'
  <2>1. CASE id # Id(c)
    BY <2>1, <1>2, OthersStay DEF IdSettles
  <2>2. CASE id = Id(c)
    BY <2>2 DEF IdSettles
  <2> QED
    BY <2>1, <2>2
<1> QED
  BY <1>1, <1>3, DiskFromIds

LEMMA DiskStep ==
  ASSUME Types, QueueInv, Accepted, DiskInv, [Next]_vars
  PROVE  DiskInv'
<1>0. /\ Calls' = Calls /\ Ids' = Ids /\ Turns' = Turns
      /\ \A d : Id(d)' = Id(d) /\ Sizes(d)' = Sizes(d)
  BY ScenarioStays DEF Calls, Ids, Turns, Turn, Id, Sizes, Bytes
<1>1. CASE UNCHANGED vars
  <2>1. Alone'
    BY <1>1, AloneStays DEF vars, DiskInv
  <2>2. \A id \in Ids : IdSettles(id)'
    BY <1>0, <1>1, OthersStay DEF vars, IdSettles
  <2> QED
    BY <2>1, <2>2, DiskFromIds
<1>2. ASSUME NEW c \in Calls, Validate(c) PROVE DiskInv'
  <2>1. /\ pc[c] \notin Busy /\ pc'[c] \notin Busy
        /\ \A d \in Calls \ {c} : pc'[d] = pc[d]
    BY <1>2 DEF Types, Validate, Goto, Busy
  <2>2. UNCHANGED <<html, manifest, shown, raced>>
    BY <1>2 DEF Validate
  <2>3. Alone'
    BY <2>1, <2>2, AloneStays DEF DiskInv
  <2>4. ASSUME NEW id \in Ids PROVE IdSettles(id)'
    <3>1. \A d \in Calls : Id(d) = id /\ pc'[d] \in Busy => d # c /\ pc'[d] = pc[d]
      BY <2>1
    <3>2. id \notin raced => \A d \in Calls : Id(d) = id /\ pc'[d] \in Busy => Stage(d)'
      BY <1>0, <2>2, <3>1 DEF DiskInv, Stage
    <3>3. Quiet(id)' => Quiet(id)
      BY <1>0, <2>1 DEF Quiet, Busy
    <3>4. id \notin raced /\ Quiet(id) => OnDisk(id, shown[id])
      BY DEF DiskInv, DiskSettles
    <3> QED
      BY <1>0, <2>2, <3>2, <3>3, <3>4 DEF IdSettles, OnDisk
  <2> QED
    BY <2>3, <2>4, DiskFromIds
<1>3. ASSUME NEW c \in Calls, OpenHtml(c) PROVE DiskInv'
  <2> DEFINE others == \E d \in Calls : Id(d) = Id(c) /\ pc[d] \in Busy
  <2>1. /\ pc[c] = "valid" /\ pc' = [pc EXCEPT ![c] = "html"]
        /\ html' = [html EXCEPT ![Id(c)] = <<>>]
        /\ UNCHANGED <<manifest, shown>>
        /\ raced' = IF others THEN raced \cup {Id(c)} ELSE raced \ {Id(c)}
    BY <1>3 DEF OpenHtml, Goto
  <2>2. Id(c) \in Ids
    BY CallTypes
  <2>3. /\ pc'[c] = "html" /\ \A d \in Calls \ {c} : pc'[d] = pc[d]
        /\ html'[Id(c)] = <<>>
        /\ \A id \in Ids \ {Id(c)} : html'[id] = html[id] /\ (id \in raced' <=> id \in raced)
    BY <2>1, <2>2 DEF Types
  <2>4. Id(c) \notin raced' => ~others
    BY <2>1
  <2>5. Alone'
    <3> SUFFICES ASSUME NEW d \in Calls, NEW e \in Calls, pc'[d] \in Busy, pc'[e] \in Busy,
                        Id(d) = Id(e), Id(d) \notin raced'
                 PROVE  d = e
      BY <1>0 DEF Alone, Busy
    <3>1. CASE Id(d) = Id(c)
      BY <2>3, <2>4, <3>1
    <3>2. CASE Id(d) # Id(c)
      <4>1. Id(d) \notin raced
        BY <2>3, <3>2, CallTypes
      <4> QED
        BY <2>3, <3>2, <4>1 DEF DiskInv, Alone
    <3> QED
      BY <3>1, <3>2
  <2>6. ASSUME NEW id \in Ids PROVE IdSettles(id)'
    <3>1. CASE id # Id(c)
      BY <1>0, <2>1, <2>3, <3>1, OthersStay DEF IdSettles
    <3>2. CASE id = Id(c) /\ id \notin raced'
      <4>1. \A d \in Calls : Id(d) = id /\ pc'[d] \in Busy => d = c
        BY <2>3, <2>4, <3>2
      <4>2. Stage(c)'
        BY <1>0, <2>3 DEF Stage
      <4>3. ~Quiet(id)'
        BY <1>0, <2>3, <3>2 DEF Quiet, Busy
      <4> QED
        BY <1>0, <4>1, <4>2, <4>3 DEF IdSettles, Busy
    <3> QED
      BY <3>1, <3>2 DEF IdSettles
  <2> QED
    BY <2>5, <2>6, DiskFromIds
<1>4. ASSUME NEW c \in Calls, WriteHtml(c) PROVE DiskInv'
  <2>1. /\ pc[c] = "html" /\ pc'[c] = "half"
        /\ \A d \in Calls \ {c} : pc'[d] = pc[d]
        /\ \A id \in Ids \ {Id(c)} : html'[id] = html[id]
        /\ UNCHANGED <<manifest, shown, raced>>
    BY <1>4 DEF Types, WriteHtml, Goto
  <2>2. ASSUME Id(c) \notin raced PROVE Stage(c)'
    <3>1. html[Id(c)] = <<>>
      BY <2>1, <2>2 DEF DiskInv, Stage, Busy
    <3>2. html'[Id(c)] = Whole(c, Sizes(c).html)
      BY <1>4, <3>1, CallTypes, OverEmpty DEF Types, WriteHtml
    <3> QED
      BY <1>0, <2>1, <3>2 DEF Stage
  <2> QED
    BY <2>1, <2>2, WritingStep DEF Busy
<1>5. ASSUME NEW c \in Calls, OpenManifest(c) PROVE DiskInv'
  <2>1. /\ pc[c] = "half" /\ pc'[c] = "manifest"
        /\ \A d \in Calls \ {c} : pc'[d] = pc[d]
        /\ \A id \in Ids \ {Id(c)} : manifest'[id] = manifest[id]
        /\ manifest'[Id(c)] = <<>>
        /\ UNCHANGED <<html, shown, raced>>
    BY <1>5, CallTypes DEF Types, OpenManifest, Goto
  <2>2. ASSUME Id(c) \notin raced PROVE Stage(c)'
    BY <1>0, <2>1, <2>2 DEF DiskInv, Stage, Busy
  <2> QED
    BY <2>1, <2>2, WritingStep DEF Busy
<1>6. ASSUME NEW c \in Calls, WriteManifest(c) PROVE DiskInv'
  <2>1. /\ pc[c] = "manifest" /\ pc'[c] = "written"
        /\ \A d \in Calls \ {c} : pc'[d] = pc[d]
        /\ \A id \in Ids \ {Id(c)} : manifest'[id] = manifest[id]
        /\ UNCHANGED <<html, shown, raced>>
    BY <1>6 DEF Types, WriteManifest, Goto
  <2>2. ASSUME Id(c) \notin raced PROVE Stage(c)'
    <3>1. manifest[Id(c)] = <<>> /\ html[Id(c)] = Whole(c, Sizes(c).html)
      BY <2>1, <2>2 DEF DiskInv, Stage, Busy
    <3>2. manifest'[Id(c)] = Whole(c, Sizes(c).manifest)
      BY <1>6, <3>1, CallTypes, OverEmpty DEF Types, WriteManifest
    <3> QED
      BY <1>0, <2>1, <3>1, <3>2 DEF Stage
  <2> QED
    BY <2>1, <2>2, WritingStep DEF Busy
<1>7. ASSUME NEW c \in Calls, WriteFails(c) PROVE DiskInv'
  <2>1. /\ pc'[c] = "failed" /\ \A d \in Calls \ {c} : pc'[d] = pc[d]
        /\ UNCHANGED <<html, manifest, shown>>
    BY <1>7 DEF Types, WriteFails, Goto
  <2>2. CASE pc[c] # "valid"
    BY <1>7, <2>1, <2>2, RacingStep DEF WriteFails, Busy
  <2>3. CASE pc[c] = "valid"
    <3>1. raced' = raced
      BY <1>7, <2>3 DEF WriteFails
    <3>2. \A d \in Calls : pc'[d] \in Busy <=> pc[d] \in Busy
      BY <2>1, <2>3 DEF Busy
    <3>3. Alone'
      BY <3>1, <3>2, AloneStays DEF DiskInv
    <3>4. ASSUME NEW id \in Ids PROVE IdSettles(id)'
      <4>1. id \notin raced =>
              \A d \in Calls : Id(d) = id /\ pc'[d] \in Busy => Stage(d)'
        <5>1. \A d \in Calls : pc'[d] \in Busy => pc'[d] = pc[d]
          BY <2>1 DEF Busy
        <5> QED
          BY <1>0, <2>1, <5>1 DEF DiskInv, Stage
      <4>2. Quiet(id)' => Quiet(id)
        BY <1>0, <3>2 DEF Quiet, Busy
      <4>3. id \notin raced /\ Quiet(id) => OnDisk(id, shown[id])
        BY DEF DiskInv, DiskSettles
      <4> QED
        BY <1>0, <2>1, <3>1, <4>1, <4>2, <4>3 DEF IdSettles, OnDisk
    <3> QED
      BY <3>3, <3>4, DiskFromIds
  <2> QED
    BY <2>2, <2>3
<1>8. ASSUME NEW c \in Calls, Announce(c) PROVE DiskInv'
  <2>1. /\ pc[c] = "written" /\ \A d \in Calls \ {c} : pc'[d] = pc[d]
        /\ UNCHANGED <<html, manifest, shown>>
    BY <1>8 DEF Types, Announce, Goto
  <2>2. CASE pc'[c] = "queued" /\ raced' = raced
    <3>1. ASSUME Id(c) \notin raced PROVE Stage(c)'
      BY <1>0, <2>1, <2>2, <3>1 DEF DiskInv, Stage, Busy
    <3> QED
      BY <2>1, <2>2, <3>1, WritingStep DEF Busy
  <2>3. CASE pc'[c] = "lost" /\ raced' = raced \cup {Id(c)}
    BY <2>1, <2>3, RacingStep DEF Busy
  <2> QED
    BY <1>8, <2>2, <2>3 DEF Types, Announce, Goto
<1>9. ASSUME NEW t \in Turns, Relay(t) PROVE DiskInv'
  <2> DEFINE c == Head(queue[t])
  <2>1. c \in Calls /\ pc[c] = "queued"
    BY <1>9 DEF Types, QueueInv, QueueMatches, Relay
  <2>2. Id(c) \in Ids /\ c # 0
    BY <2>1, CallTypes
  <2>3. HostValidate(calls[c].lens) = "ok"
    BY <2>1 DEF Accepted
  <2>4. /\ pc' = [pc EXCEPT ![c] = "shown"] /\ shown' = [shown EXCEPT ![Id(c)] = c]
        /\ UNCHANGED <<html, manifest, raced>>
    BY <1>9, <2>3 DEF Relay, Goto
  <2> HIDE DEF c
  <2>5. /\ pc'[c] = "shown" /\ shown'[Id(c)] = c
        /\ \A d \in Calls \ {c} : pc'[d] = pc[d]
        /\ \A id \in Ids \ {Id(c)} : shown'[id] = shown[id]
    BY <2>1, <2>2, <2>4 DEF Types
  <2>6. Alone'
    BY <2>4, <2>5, AloneStays DEF DiskInv, Busy
  <2>7. ASSUME NEW id \in Ids PROVE IdSettles(id)'
    <3>1. CASE id # Id(c)
      BY <1>0, <2>4, <2>5, <3>1, OthersStay DEF IdSettles
    <3>2. CASE id = Id(c) /\ id \notin raced
      <4>1. \A d \in Calls : Id(d) = id => pc'[d] \notin Busy
        BY <2>1, <2>5, <3>2 DEF DiskInv, Alone, Busy
      <4>2. OnDisk(id, c)
        BY <2>1, <2>2, <3>2 DEF DiskInv, Stage, OnDisk, Busy
      <4>3. OnDisk(id, shown[id])'
        BY <1>0, <2>2, <2>4, <2>5, <3>2, <4>2 DEF OnDisk
      <4> QED
        BY <1>0, <4>1, <4>3 DEF IdSettles, Busy
    <3> QED
      BY <2>4, <3>1, <3>2 DEF IdSettles
  <2> QED
    BY <2>6, <2>7, DiskFromIds
<1>10. ASSUME NEW t \in Turns, TurnEnds(t) PROVE DiskInv'
  <2>1. UNCHANGED <<pc, html, manifest, shown, raced>>
    BY <1>10 DEF TurnEnds
  <2>2. Alone'
    BY <2>1, AloneStays DEF DiskInv
  <2>3. \A id \in Ids : IdSettles(id)'
    BY <1>0, <2>1, OthersStay DEF IdSettles
  <2> QED
    BY <2>2, <2>3, DiskFromIds
<1>11. ASSUME NEW t \in Turns, CutTurn(t) PROVE DiskInv'
  <2> DEFINE cut == {d \in Calls : Turn(d) = t /\ pc[d] = "queued"}
  <2>1. /\ raced' = raced \cup {Id(d) : d \in cut}
        /\ UNCHANGED <<html, manifest, shown>>
        /\ \A d \in Calls : pc'[d] = IF d \in cut THEN "lost" ELSE pc[d]
    BY <1>11 DEF CutTurn
  <2>2. Alone'
    BY <2>1, AloneStays DEF DiskInv, Busy
  <2>3. ASSUME NEW id \in Ids PROVE IdSettles(id)'
    <3>1. CASE id \in raced'
      BY <3>1 DEF IdSettles
    <3>2. CASE id \notin raced'
      <4>1. id \notin raced /\ \A d \in Calls : Id(d) = id => pc'[d] = pc[d]
        BY <2>1, <3>2
      <4> QED
        BY <1>0, <2>1, <4>1, OthersStay DEF IdSettles
    <3> QED
      BY <3>1, <3>2
  <2> QED
    BY <2>2, <2>3, DiskFromIds
<1> QED
  BY <1>1, <1>2, <1>3, <1>4, <1>5, <1>6, <1>7, <1>8, <1>9, <1>10, <1>11 DEF Next

-----------------------------------------------------------------------------
(* The theorems. *)

IInv == Types /\ QueueInv /\ Accepted /\ DiskInv

LEMMA Invariance == Spec => []IInv
<1>1. Init => IInv
  <2> SUFFICES ASSUME Init PROVE IInv
    OBVIOUS
  <2>1. Types
    <3>1. \A c \in Calls : Id(c) \in Ids /\ Turn(c) \in Turns
      BY DEF Ids, Turns
    <3> QED
      BY <3>1 DEF Init, Types
  <2>2. QueueInv /\ Accepted
    BY DEF Init, QueueInv, QueueMatches, NoRepeats, Accepted
  <2>3. DiskInv
    BY DEF Init, DiskInv, Alone, DiskSettles, Quiet, OnDisk, Busy
  <2> QED
    BY <2>1, <2>2, <2>3 DEF IInv
<1>2. IInv /\ [Next]_vars => IInv'
  BY TypesStep, QueueStep, AcceptedStep, DiskStep DEF IInv
<1> QED
  BY <1>1, <1>2, PTL DEF Spec

(* Every variable keeps its type, and what is in a queue is being announced. *)
THEOREM TypeCorrect == Spec => []TypeOK
<1>1. IInv => TypeOK
  BY DEF IInv, TypeOK, QueueInv
<1> QED
  BY <1>1, Invariance, PTL

(* Whatever the limits and the strings, a lens that any of the three         *)
(* sidecars writes and announces is one the host shows.                      *)
THEOREM WrittenIsAlwaysRendered == Spec => []WrittenIsRendered
<1>1. IInv => WrittenIsRendered
  BY DEF IInv, Accepted, WrittenIsRendered
<1> QED
  BY <1>1, Invariance, PTL

(* However many turns and calls meet at a lens, whichever of them fail or    *)
(* are cut off: a call that is left alone makes both files of the lens and   *)
(* what is shown of it agree, and they stay so.                              *)
THEOREM DiskAlwaysSettles == Spec => []DiskSettles
<1>1. IInv => DiskSettles
  BY DEF IInv, DiskInv
<1> QED
  BY <1>1, Invariance, PTL
=============================================================================
