----------------------- MODULE SidecarProcess_proofs -----------------------
(***************************************************************************)
(* Proofs about SidecarProcess, for any Room: types, what a clean shutdown *)
(* means, and that host and sidecar implement SidecarContract.             *)
(***************************************************************************)
EXTENDS SidecarProcess, TLAPS

(* The two ends have types of their own; READY is printed once, so it finds  *)
(* room behind the lines there are.                                          *)
HostTypes ==
  /\ kind \in {"rust", "go", "python"} /\ style \in {"bundled", "smoke"}
  /\ host \in HostStates /\ writer \in BOOLEAN
  /\ writer => host \in {"spawned", "waiting", "connecting", "up", "stopping"}

PipeTypes ==
  /\ stdin \in Seq({"AUTH", "SHUTDOWN"}) /\ out \in Seq({"READY", "log"})
  /\ Len(out) <= Room + 1
  /\ sidecar \in {"off", "auth", "binding", "bound"} => Len(out) <= Room

SidecarTypes ==
  /\ sidecar \in {"off", "ended"} \cup MainStates
  /\ status \in {"none", "ok", "error", "killed"}
  /\ grace \in {"none", "unbounded", "timed", "over"}
  /\ (status = "none" <=> sidecar \in {"off"} \cup MainStates)
  /\ stuck \in BOOLEAN /\ call \in {"none", "open", "done", "cut"}

IdleIsOff == host = "idle" => sidecar = "off"

TInv == HostTypes /\ PipeTypes /\ SidecarTypes /\ IdleIsOff

(* A process that ends keeps the types of its end.                           *)
LEMMA EndsTypes ==
  ASSUME SidecarTypes, NEW how \in {"ok", "error", "killed"}, Ends(how)
  PROVE  SidecarTypes' /\ sidecar' = "ended"
BY DEF SidecarTypes, Ends, MainStates

LEMMA KillTypes ==
  ASSUME SidecarTypes, KillChild \/ UNCHANGED <<sidecarEnd, call>>
  PROVE  SidecarTypes' /\ (sidecar' = sidecar \/ sidecar' = "ended")
<1>1. CASE UNCHANGED <<sidecarEnd, call>>
  BY <1>1 DEF SidecarTypes, sidecarEnd
<1>2. CASE Ends("killed")
  BY <1>2, EndsTypes
<1> QED
  BY <1>1, <1>2 DEF KillChild

LEMMA DropTypes ==
  ASSUME SidecarTypes, HostTypes, NEW state \in HostStates, Drop(state),
         UNCHANGED <<kind, style>>
  PROVE  SidecarTypes' /\ HostTypes' /\ (sidecar' = sidecar \/ sidecar' = "ended")
<1>1. KillChild \/ UNCHANGED <<sidecarEnd, call>>
  BY DEF Drop
<1>2. HostTypes'
  BY DEF Drop, HostTypes
<1> QED
  BY <1>1, <1>2, KillTypes

(* A step of the host leaves the sidecar's end alone, but for a kill; a step *)
(* of the sidecar leaves the host's alone.                                   *)
LEMMA HostStep ==
  ASSUME HostTypes, SidecarTypes, IdleIsOff, HostNext
  PROVE  HostTypes' /\ SidecarTypes'
<1> USE DEF HostStates
<1>1. CASE Spawn
  <2>1. CASE host' = "spawned" /\ writer' = TRUE /\ sidecar' = "auth"
    <3>1. HostTypes'
      BY <1>1, <2>1, Zenon DEF Spawn, HostTypes
    <3>2. SidecarTypes'
      BY <1>1, <2>1 DEF Spawn, SidecarTypes, IdleIsOff, MainStates
    <3> QED
      BY <3>1, <3>2
  <2>2. CASE host' = "failed" /\ UNCHANGED <<writer, sidecar>>
    BY <1>1, <2>2 DEF Spawn, HostTypes, SidecarTypes
  <2> QED
    BY <1>1, <2>1, <2>2 DEF Spawn
<1>2. CASE WriteAuth
  <2>1. CASE Drop("failed")
    BY <1>2, <2>1, DropTypes DEF WriteAuth
  <2>2. CASE host' = "waiting" /\ UNCHANGED <<writer, sidecarEnd, call>>
    BY <1>2, <2>2 DEF WriteAuth, HostTypes, SidecarTypes, sidecarEnd
  <2> QED
    BY <1>2, <2>1, <2>2 DEF WriteAuth
<1>3. CASE ReadLine
  BY <1>3 DEF ReadLine, HostTypes, SidecarTypes, sidecarEnd
<1>4. CASE StartFails
  BY <1>4, DropTypes DEF StartFails
<1>5. CASE Connect
  <2>1. CASE Drop("failed")
    BY <1>5, <2>1, DropTypes DEF Connect
  <2>2. CASE host' = "up" /\ UNCHANGED <<writer, sidecarEnd, call>>
    BY <1>5, <2>2 DEF Connect, HostTypes, SidecarTypes, sidecarEnd
  <2> QED
    BY <1>5, <2>1, <2>2 DEF Connect
<1>6. CASE Shutdown
  <2>1. CASE Drop("unclean")
    BY <1>6, <2>1, DropTypes DEF Shutdown
  <2>2. CASE host' = "stopping" /\ writer' = (style = "bundled")
             /\ UNCHANGED <<sidecarEnd, call>>
    <3>1. SidecarTypes'
      BY <2>2 DEF SidecarTypes, sidecarEnd
    <3>2. HostTypes'
      BY <1>6, <2>2 DEF Shutdown, HostTypes
    <3> QED
      BY <3>1, <3>2
  <2> QED
    BY <1>6, <2>1, <2>2 DEF Shutdown
<1>7. CASE DrainLine
  BY <1>7 DEF DrainLine, HostTypes, SidecarTypes, sidecarEnd, hostEnd
<1>8. CASE SeeEnd
  BY <1>8 DEF SeeEnd, HostTypes, SidecarTypes, sidecarEnd
<1>9. CASE GiveUp
  <2>1. HostTypes'
    BY <1>9 DEF GiveUp, HostTypes
  <2> QED
    BY <1>9, <2>1, KillTypes DEF GiveUp
<1>10. CASE Kill
  <2>1. HostTypes'
    BY <1>10 DEF Kill, HostTypes
  <2> QED
    BY <1>10, <2>1, KillTypes DEF Kill
<1>11. CASE HostEnds
  BY <1>11 DEF HostEnds, HostTypes, SidecarTypes, sidecarEnd
<1> QED
  BY <1>1, <1>2, <1>3, <1>4, <1>5, <1>6, <1>7, <1>8, <1>9, <1>10, <1>11 DEF HostNext

LEMMA SidecarStep ==
  ASSUME HostTypes, SidecarTypes, SidecarNext \/ CallOpens
  PROVE  HostTypes' /\ SidecarTypes'
<1>1. HostTypes'
  <2>1. UNCHANGED <<kind, style, hostEnd>>
    BY DEF SidecarNext, SidecarSteps, ReadAuth, Bind, Ready, HungReads, ReadCommand,
           GraceEnds, Stopped, CallDropped, ServeFails, Crash, Log, CallEnds, CallOpens,
           sidecarFrame
  <2> QED
    BY <2>1 DEF HostTypes, hostEnd
<1>2. CASE \E how \in {"ok", "error"} : Ends(how)
  BY <1>1, <1>2, EndsTypes
<1>3. ASSUME ~\E how \in {"ok", "error"} : Ends(how) PROVE SidecarTypes'
  <2> USE DEF MainStates, sidecarEnd
  <2>1. CASE ReadAuth
    BY <1>3, <2>1 DEF ReadAuth, SidecarTypes
  <2>2. CASE Bind
    BY <1>3, <2>2 DEF Bind, SidecarTypes
  <2>3. CASE Ready
    BY <1>3, <2>3 DEF Ready, SidecarTypes
  <2>4. CASE ServeFails
    BY <2>4 DEF ServeFails, SidecarTypes
  <2>5. CASE ReadCommand
    BY <2>5 DEF ReadCommand, SidecarTypes
  <2>6. CASE GraceEnds
    BY <2>6 DEF GraceEnds, SidecarTypes
  <2>7. CASE Log
    <3>1. stuck' \in BOOLEAN
      BY <2>7 DEF Log, SidecarTypes
    <3> QED
      BY <2>7, <3>1 DEF Log, SidecarTypes
  <2>8. CASE CallEnds \/ CallDropped \/ CallOpens
    BY <2>8 DEF CallEnds, CallDropped, CallOpens, SidecarTypes
  <2>9. ~HungReads /\ ~Stopped /\ ~Crash
    BY <1>3 DEF HungReads, Stopped, Crash
  <2> QED
    BY <2>1, <2>2, <2>3, <2>4, <2>5, <2>6, <2>7, <2>8, <2>9 DEF SidecarNext, SidecarSteps
<1> QED
  BY <1>1, <1>2, <1>3

(* The sidecar's main does not go back to where it was before READY.         *)
Early == {"off", "auth", "binding", "bound"}

LEMMA EarlyIsPast ==
  ASSUME HostTypes, SidecarTypes, IdleIsOff, [Next]_vars, sidecar' \in Early
  PROVE  sidecar \in Early
<1> USE DEF Early
<1>1. CASE UNCHANGED vars
  BY <1>1 DEF vars, sidecarEnd
<1>2. CASE HostNext
  <2>1. CASE Spawn
    BY <2>1 DEF Spawn, IdleIsOff
  <2>2. CASE UNCHANGED sidecar
    BY <2>2
  <2>3. CASE Ends("killed")
    BY <2>3 DEF Ends
  <2> QED
    BY <1>2, <2>1, <2>2, <2>3
    DEF HostNext, WriteAuth, ReadLine, StartFails, Connect, Shutdown, DrainLine, SeeEnd,
        GiveUp, Kill, HostEnds, Drop, KillChild, sidecarEnd
<1>3. CASE SidecarNext \/ CallOpens
  BY <1>3 DEF SidecarNext, SidecarSteps, ReadAuth, Bind, Ready, HungReads, ReadCommand,
     GraceEnds, Stopped, CallDropped, ServeFails, Crash, Log, CallEnds, CallOpens,
     sidecarEnd, Ends
<1> QED
  BY <1>1, <1>2, <1>3 DEF Next

LEMMA PipeStep ==
  ASSUME TInv, [Next]_vars
  PROVE  PipeTypes'
<1> DEFINE Lines == {"READY", "log"}
           Commands == {"AUTH", "SHUTDOWN"}
<1>1. /\ stdin \in Seq(Commands) /\ out \in Seq(Lines)
      /\ Len(out) \in Nat /\ Room \in Nat
  BY ProcessAssumption DEF TInv, PipeTypes
<1>2. stdin' \in Seq(Commands)
  <2>1. \/ UNCHANGED stdin
        \/ \E c \in Commands : stdin' = Append(stdin, c)
        \/ stdin # <<>> /\ stdin' = Tail(stdin)
        \/ stdin' = <<>>
    BY DEF Next, vars, HostNext, SidecarNext, SidecarSteps, Spawn, WriteAuth, ReadLine,
       StartFails, Connect, Shutdown, DrainLine, SeeEnd, GiveUp, Kill, HostEnds, ReadAuth,
       Bind, Ready, HungReads, ReadCommand, GraceEnds, Stopped, CallDropped, ServeFails,
       Crash, Log, CallEnds, CallOpens
  <2> HIDE DEF Commands
  <2>2. Len(stdin) >= 0 /\ <<>> \in Seq(Commands)
    BY <1>1
  <2>3. ASSUME NEW c \in Commands PROVE Append(stdin, c) \in Seq(Commands)
    BY <1>1
  <2>4. stdin # <<>> => Tail(stdin) \in Seq(Commands)
    BY <1>1
  <2> QED
    BY <1>1, <2>1, <2>2, <2>3, <2>4
<1>3. \/ UNCHANGED out
      \/ out # <<>> /\ out' = Tail(out)
      \/ out' = Append(out, "READY") /\ sidecar = "bound" /\ sidecar' = "serving"
      \/ out' = Append(out, "log") /\ Len(out) < Room
  BY DEF Next, vars, HostNext, SidecarNext, SidecarSteps, Spawn, WriteAuth, ReadLine,
     StartFails, Connect, Shutdown, DrainLine, SeeEnd, GiveUp, Kill, HostEnds, ReadAuth,
     Bind, Ready, HungReads, ReadCommand, GraceEnds, Stopped, CallDropped, ServeFails,
     Crash, Log, CallEnds, CallOpens
<1>4. out' \in Seq(Lines)
  <2>1. "READY" \in Lines /\ "log" \in Lines
    OBVIOUS
  <2> HIDE DEF Lines
  <2>2. \A l \in Lines : Append(out, l) \in Seq(Lines)
    BY <1>1
  <2>3. out # <<>> => Tail(out) \in Seq(Lines)
    BY <1>1
  <2> QED
    BY <1>1, <1>3, <2>1, <2>2, <2>3
<1>5. sidecar' \in Early => sidecar \in Early
  BY EarlyIsPast DEF TInv
<1>6. Len(out) <= Room + 1 /\ (sidecar \in Early => Len(out) <= Room)
  BY DEF TInv, PipeTypes, Early
<1>7. Len(out') <= Room + 1 /\ (sidecar' \in Early => Len(out') <= Room)
  <2>1. CASE UNCHANGED out \/ (out # <<>> /\ out' = Tail(out))
    <3>1. Len(out') <= Len(out) /\ Len(out') \in Nat
      BY <1>1, <2>1
    <3> QED
      BY <1>1, <1>5, <1>6, <3>1
  <2>2. CASE out' = Append(out, "READY") /\ sidecar = "bound" /\ sidecar' = "serving"
    BY <1>1, <1>6, <2>2 DEF Early
  <2>3. CASE out' = Append(out, "log") /\ Len(out) < Room
    BY <1>1, <2>3
  <2> QED
    BY <1>3, <2>1, <2>2, <2>3
<1> QED
  BY <1>2, <1>4, <1>7 DEF PipeTypes, Early

LEMMA TypeStep ==
  ASSUME TInv, [Next]_vars
  PROVE  TInv'
<1>1. PipeTypes'
  BY PipeStep
<1>2. HostTypes' /\ SidecarTypes'
  <2>1. CASE UNCHANGED vars
    BY <2>1 DEF vars, hostEnd, sidecarEnd, TInv, HostTypes, SidecarTypes
  <2> QED
    BY <2>1, HostStep, SidecarStep DEF TInv, Next
<1>3. IdleIsOff'
  <2>1. host' = "idle" => UNCHANGED <<host, sidecar>> \/ host = "idle"
    BY DEF Next, vars, HostNext, SidecarNext, SidecarSteps, Spawn, WriteAuth, ReadLine,
       StartFails, Connect, Shutdown, DrainLine, SeeEnd, GiveUp, Kill, HostEnds, Drop,
       ReadAuth, Bind, Ready, HungReads, ReadCommand, GraceEnds, Stopped, CallDropped,
       ServeFails, Crash, Log, CallEnds, CallOpens, hostEnd, sidecarEnd, sidecarFrame
  <2>2. host' = "idle" /\ host = "idle" => UNCHANGED sidecar
    BY DEF TInv, IdleIsOff, Next, vars, HostNext, SidecarNext, SidecarSteps, Spawn,
       WriteAuth, ReadLine, StartFails, Connect, Shutdown, DrainLine, SeeEnd, GiveUp, Kill,
       HostEnds, ReadAuth, Bind, Ready, HungReads, ReadCommand, GraceEnds, Stopped,
       CallDropped, ServeFails, Crash, Log, CallEnds, CallOpens, hostEnd, sidecarEnd,
       Running, MainStates, Drained
  <2> QED
    BY <2>1, <2>2 DEF TInv, IdleIsOff
<1> QED
  BY <1>1, <1>2, <1>3 DEF TInv

LEMMA TypeInvariance == Spec => []TInv
<1>1. Init => TInv
  <2> SUFFICES ASSUME Init PROVE TInv
    OBVIOUS
  <2>1. PipeTypes
    BY ProcessAssumption DEF Init, PipeTypes
  <2>2. HostTypes
    BY DEF Init, HostTypes, HostStates
  <2>3. SidecarTypes /\ IdleIsOff
    BY DEF Init, SidecarTypes, IdleIsOff, MainStates
  <2> QED
    BY <2>1, <2>2, <2>3 DEF TInv
<1> QED
  BY <1>1, TypeStep, PTL DEF Spec

(* Every variable keeps its type; a pipe never holds more than fits and the  *)
(* one line that is READY.                                                   *)
THEOREM TypeCorrect == Spec => []TypeOK
<1>1. TInv => TypeOK
  BY DEF TInv, HostTypes, PipeTypes, SidecarTypes, TypeOK
<1> QED
  BY <1>1, TypeInvariance, PTL

-----------------------------------------------------------------------------
(* A clean shutdown. *)

(* A call that is cut off while its sidecar lives has lost its host; one that *)
(* a sidecar cuts off although it ends well was out of its grace.             *)
CutsHaveReasons ==
  /\ sidecar \in {"off", "hung"} => call = "none"
  /\ call = "cut" /\ Running => host = "dead"
  /\ status = "ok" /\ call = "cut" => grace = "over" \/ host = "dead"

CleanInv == CutsHaveReasons /\ CleanMeansDrained

(* A process that has ended stays as it has ended.                           *)
LEMMA EndedStays ==
  ASSUME TInv, [Next]_vars, sidecar = "ended"
  PROVE  UNCHANGED <<sidecar, status, grace, call>>
BY DEF TInv, IdleIsOff, Next, vars, HostNext, SidecarNext, SidecarSteps, Spawn, WriteAuth,
   ReadLine, StartFails, Connect, Shutdown, DrainLine, SeeEnd, GiveUp, Kill, HostEnds, Drop,
   KillChild, ReadAuth, Bind, Ready, HungReads, ReadCommand, GraceEnds, Stopped,
   CallDropped, ServeFails, Crash, Log, CallEnds, CallOpens, sidecarEnd, Running, MainStates

(* The dead stay dead, and only SeeEnd makes a host clean.                   *)
LEMMA HostForward ==
  ASSUME [Next]_vars
  PROVE  /\ host = "dead" => host' = "dead"
         /\ host' = "clean" => host = "clean" \/ SeeEnd
BY DEF Next, vars, HostNext, SidecarNext, SidecarSteps, Spawn, WriteAuth, ReadLine,
   StartFails, Connect, Shutdown, DrainLine, GiveUp, Kill, HostEnds, SeeEnd, Drop, ReadAuth,
   Bind, Ready, HungReads, ReadCommand, GraceEnds, Stopped, CallDropped, ServeFails, Crash,
   Log, CallEnds, CallOpens, hostEnd, sidecarFrame

LEMMA CutsStep ==
  ASSUME TInv, CutsHaveReasons, [Next]_vars
  PROVE  CutsHaveReasons'
<1>0. host = "dead" => host' = "dead"
  BY HostForward
<1> USE DEF CutsHaveReasons, Running, MainStates
<1>1. CASE sidecar = "ended"
  BY <1>0, <1>1, EndedStays
<1>2. CASE UNCHANGED <<sidecar, status, grace, call>>
  BY <1>0, <1>2
<1>3. CASE Running /\ \E how \in {"error", "killed"} : Ends(how)
  BY <1>3 DEF Ends
<1>4. CASE HungReads \/ Stopped
  BY <1>0, <1>4 DEF HungReads, Stopped, Ends, sidecarFrame, hostEnd
<1>5. CASE Spawn
  BY <1>5 DEF Spawn, TInv, SidecarTypes, IdleIsOff
<1>6. CASE sidecar # "ended" /\ HostNext /\ ~Spawn
  BY <1>2, <1>3, <1>6
  DEF HostNext, WriteAuth, ReadLine, StartFails, Connect, Shutdown, DrainLine, SeeEnd,
      GiveUp, Kill, HostEnds, Drop, KillChild, sidecarEnd
<1>7. CASE sidecar # "ended" /\ (SidecarNext \/ CallOpens) /\ ~HungReads /\ ~Stopped
  <2>1. CASE CallOpens
    BY <2>1 DEF CallOpens, hostEnd, sidecarEnd, TInv, SidecarTypes
  <2>2. CASE CallEnds
    BY <2>2 DEF CallEnds, hostEnd, sidecarEnd, TInv, SidecarTypes
  <2>3. CASE CallDropped
    BY <1>0, <2>3 DEF CallDropped, hostEnd, sidecarEnd, TInv, SidecarTypes
  <2>4. CASE ServeFails
    BY <1>0, <2>4 DEF ServeFails, TInv, SidecarTypes
  <2>5. CASE ReadCommand
    BY <1>0, <2>5 DEF ReadCommand, TInv, SidecarTypes
  <2>6. CASE GraceEnds
    BY <1>0, <2>6 DEF GraceEnds, TInv, SidecarTypes
  <2>7. CASE Log
    BY <1>2, <2>7 DEF Log
  <2>8. CASE Crash
    BY <1>3, <2>8 DEF Crash
  <2>9. CASE ReadAuth
    BY <1>0, <1>3, <2>9 DEF ReadAuth, TInv, SidecarTypes
  <2>10. CASE Bind
    BY <1>0, <1>3, <2>10 DEF Bind, TInv, SidecarTypes
  <2>11. CASE Ready
    BY <1>0, <1>3, <2>11 DEF Ready, TInv, SidecarTypes
  <2> QED
    BY <1>7, <2>1, <2>2, <2>3, <2>4, <2>5, <2>6, <2>7, <2>8, <2>9, <2>10, <2>11
    DEF SidecarNext, SidecarSteps
<1>8. CASE UNCHANGED vars
  BY <1>2, <1>8 DEF vars, sidecarEnd
<1> QED
  BY <1>1, <1>4, <1>5, <1>6, <1>7, <1>8 DEF Next

(* A shutdown that returns Ok has cut off no call, except Python's after the *)
(* grace it was given.                                                       *)
THEOREM CleanAlwaysMeansDrained == Spec => []CleanMeansDrained
<1>1. Init => CleanInv
  BY DEF Init, CleanInv, CutsHaveReasons, CleanMeansDrained
<1>2. TInv /\ CleanInv /\ [Next]_vars => CleanInv'
  <2> SUFFICES ASSUME TInv, CleanInv, [Next]_vars PROVE CleanInv'
    OBVIOUS
  <2>1. CutsHaveReasons'
    BY CutsStep DEF CleanInv
  <2>2. CleanMeansDrained'
    <3>1. CASE SeeEnd
      BY <3>1 DEF SeeEnd, sidecarEnd, CleanInv, CutsHaveReasons, CleanMeansDrained
    <3>2. CASE host' = "clean" /\ host = "clean"
      <4>1. status = "ok" /\ sidecar = "ended"
        BY <3>2 DEF CleanInv, CleanMeansDrained, TInv, SidecarTypes
      <4> QED
        BY <3>2, <4>1, EndedStays DEF CleanInv, CleanMeansDrained
    <3>3. CASE host' # "clean"
      BY <3>3 DEF CleanMeansDrained
    <3> QED
      BY <3>1, <3>2, <3>3, HostForward
  <2> QED
    BY <2>1, <2>2 DEF CleanInv
<1>3. CleanInv => CleanMeansDrained
  BY DEF CleanInv
<1> QED
  BY <1>1, <1>2, <1>3, TypeInvariance, PTL DEF Spec

-----------------------------------------------------------------------------
(* The contract. *)

Handle(state) ==
  CASE state = "idle" -> "none"
    [] state \in {"spawned", "waiting", "connecting"} -> "starting"
    [] state \in {"up", "stopping"} -> state
    [] OTHER -> "gone"

Process(state) ==
  CASE state = "off" -> "off"
    [] state = "ended" -> "ended"
    [] OTHER -> "running"

(* Letting go of a handle is a step of the contract, whether or not the      *)
(* process is killed with it.                                                *)
LEMMA LetGoStep ==
  ASSUME host \in {"idle", "spawned", "waiting", "connecting", "up", "stopping"},
         host' \in {"failed", "killed", "clean", "unclean", "dead"},
         UNCHANGED sidecar \/ (Running /\ sidecar' = "ended")
  PROVE  Contract!Next
<1>1. Handle(host) \in {"none", "starting", "up", "stopping"} /\ Handle(host)' = "gone"
  BY DEF Handle
<1>2. \/ UNCHANGED Process(sidecar)
      \/ Process(sidecar) = "running" /\ Process(sidecar)' = "ended"
  BY DEF Process, Running, MainStates
<1>3. Contract!LetGo
  BY <1>1, <1>2 DEF Contract!LetGo, Handle, Process
<1> QED
  BY <1>3 DEF Contract!Next

(* The end of a process is a step of the contract when the host does nothing. *)
LEMMA EndStep ==
  ASSUME UNCHANGED host, Running, sidecar' = "ended"
  PROVE  Contract!Next
<1>1. Process(sidecar) = "running" /\ Process(sidecar)' = "ended"
  BY DEF Process, Running, MainStates
<1>2. UNCHANGED Handle(host)
  BY DEF Handle
<1>3. Contract!End
  BY <1>1, <1>2 DEF Contract!End, Handle, Process
<1> QED
  BY <1>3 DEF Contract!Next

(* Steps that the contract does not see.                                     *)
LEMMA StutterStep ==
  ASSUME UNCHANGED Handle(host), UNCHANGED Process(sidecar)
  PROVE  UNCHANGED Contract!contractVars
BY DEF Contract!contractVars, Handle, Process

LEMMA HostKeepsContract ==
  ASSUME TInv, HostNext
  PROVE  [Contract!Next]_(Contract!contractVars)
<1>1. CASE Spawn
  <2>1. CASE host' = "failed" /\ UNCHANGED sidecar
    BY <1>1, <2>1, LetGoStep DEF Spawn
  <2>2. CASE host' = "spawned" /\ sidecar' = "auth"
    <3>1. Handle(host) = "none" /\ Handle(host)' = "starting" /\ Process(sidecar)' = "running"
      BY <1>1, <2>2 DEF Spawn, Handle, Process
    <3>2. Contract!Spawn
      BY <3>1 DEF Contract!Spawn, Handle, Process
    <3> QED
      BY <3>2 DEF Contract!Next
  <2> QED
    BY <1>1, <2>1, <2>2 DEF Spawn
<1>2. CASE Connect /\ host' = "up"
  <2>1. sidecar = "serving" /\ UNCHANGED sidecar
    BY <1>2 DEF Connect, Drop, sidecarEnd
  <2>2. /\ Handle(host) = "starting" /\ Handle(host)' = "up"
        /\ Process(sidecar) = "running" /\ UNCHANGED Process(sidecar)
    BY <1>2, <2>1 DEF Connect, Handle, Process
  <2>3. Contract!Up
    BY <2>2 DEF Contract!Up, Handle, Process
  <2> QED
    BY <2>3 DEF Contract!Next
<1>3. CASE Shutdown /\ host' = "stopping"
  <2>1. /\ Handle(host) = "up" /\ Handle(host)' = "stopping"
        /\ UNCHANGED Process(sidecar)
    BY <1>3 DEF Shutdown, Drop, sidecarEnd, Handle, Process
  <2>2. Contract!Stop
    BY <2>1 DEF Contract!Stop, Handle, Process
  <2> QED
    BY <2>2 DEF Contract!Next
<1>4. CASE UNCHANGED <<Handle(host), Process(sidecar)>>
  BY <1>4, StutterStep
<1>5. CASE HostEnds
  <2>1. CASE host \in {"failed", "killed", "clean", "unclean"}
    BY <1>4, <1>5, <2>1 DEF HostEnds, sidecarEnd, Handle, Process
  <2>2. CASE host \in {"idle", "spawned", "waiting", "connecting", "up", "stopping"}
    BY <1>5, <2>2, LetGoStep DEF HostEnds, sidecarEnd
  <2> QED
    BY <1>5, <2>1, <2>2 DEF HostEnds, TInv, HostTypes, HostStates
<1>6. CASE WriteAuth \/ StartFails \/ Connect \/ Shutdown \/ SeeEnd \/ GiveUp \/ Kill
  <2>1. UNCHANGED sidecar \/ (Running /\ sidecar' = "ended")
    BY <1>6
    DEF WriteAuth, StartFails, Connect, Shutdown, SeeEnd, GiveUp, Kill, Drop, KillChild,
        Ends, sidecarEnd
  <2>2. CASE host' \in {"failed", "killed", "clean", "unclean"}
    BY <1>6, <2>1, <2>2, LetGoStep
    DEF WriteAuth, StartFails, Connect, Shutdown, SeeEnd, GiveUp, Kill
  <2>3. CASE WriteAuth /\ host' = "waiting"
    BY <1>4, <2>3 DEF WriteAuth, Drop, sidecarEnd, Handle, Process
  <2> QED
    BY <1>2, <1>3, <1>6, <2>2, <2>3
    DEF WriteAuth, StartFails, Connect, Shutdown, SeeEnd, GiveUp, Kill, Drop
<1>7. CASE ReadLine \/ DrainLine
  BY <1>4, <1>7 DEF ReadLine, DrainLine, hostEnd, sidecarEnd, Handle, Process
<1> QED
  BY <1>1, <1>5, <1>6, <1>7 DEF HostNext

LEMMA SidecarKeepsContract ==
  ASSUME TInv, SidecarNext \/ CallOpens
  PROVE  [Contract!Next]_(Contract!contractVars)
<1>1. UNCHANGED host
  BY DEF SidecarNext, SidecarSteps, ReadAuth, Bind, Ready, HungReads, ReadCommand,
         GraceEnds, Stopped, CallDropped, ServeFails, Crash, Log, CallEnds, CallOpens,
         sidecarFrame, hostEnd
<1>2. \/ UNCHANGED sidecar
      \/ sidecar \in MainStates /\ sidecar' \in MainStates \cup {"ended"}
  BY DEF SidecarNext, SidecarSteps, ReadAuth, Bind, Ready, HungReads, ReadCommand,
         GraceEnds, Stopped, CallDropped, ServeFails, Crash, Log, CallEnds, CallOpens,
         sidecarEnd, Ends, Running, MainStates
<1>3. CASE Running /\ sidecar' = "ended"
  BY <1>1, <1>3, EndStep
<1>4. CASE UNCHANGED sidecar \/ (Running /\ sidecar' \in MainStates)
  <2>1. UNCHANGED Handle(host) /\ UNCHANGED Process(sidecar)
    BY <1>1, <1>4 DEF Handle, Process, Running, MainStates
  <2> QED
    BY <2>1, StutterStep
<1> QED
  BY <1>2, <1>3, <1>4 DEF Running

(* Host and sidecar implement the contract: a host is stored only when its   *)
(* sidecar runs, and neither of them comes back.                             *)
THEOREM ContractIsKept == Spec => ContractHolds
<1>1. Init => Contract!Init
  BY DEF Init, Contract!Init
<1>2. TInv /\ [Next]_vars => [Contract!Next]_(Contract!contractVars)
  <2> SUFFICES ASSUME TInv, [Next]_vars PROVE [Contract!Next]_(Contract!contractVars)
    OBVIOUS
  <2>1. CASE UNCHANGED vars
    <3>1. UNCHANGED Handle(host) /\ UNCHANGED Process(sidecar)
      BY <2>1 DEF vars, hostEnd, sidecarEnd, Handle, Process
    <3> QED
      BY <3>1, StutterStep
  <2> QED
    BY <2>1, HostKeepsContract, SidecarKeepsContract DEF Next
<1> QED
  BY <1>1, <1>2, TypeInvariance, PTL DEF Spec, ContractHolds, Contract!Spec
=============================================================================
