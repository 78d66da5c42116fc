--------------------------- MODULE SidecarProcess ---------------------------
(***************************************************************************)
(* The life of one sidecar process: the host's end of it (the app's        *)
(* bundled_sidecar.rs with AgentHost::start, and sidecar.rs, which the     *)
(* smoke test uses) and the main of each of the three sidecars. Between    *)
(* them are two pipes, signals, and a call that may be in progress.        *)
(***************************************************************************)
EXTENDS Integers, Sequences

CONSTANT Room \* the lines of output that fit in front of a host that reads none

ASSUME ProcessAssumption == Room \in Nat \ {0}

VARIABLES
  kind,    \* which sidecar it is
  style,   \* "bundled" or "smoke": which of the two hosts
  host,    \* how far the host is with it
  stdin,   \* the lines in the pipe to the sidecar
  writer,  \* whether its writing end is open
  out,     \* lines on their way to the host
  sidecar, \* how far the sidecar's main is
  status,  \* how the process ended
  grace,   \* how long its server waits for calls: "none" while it serves
  stuck,   \* whether it waits for room for a line of output
  call     \* a call of Interact

hostEnd == <<host, writer>>
sidecarEnd == <<sidecar, status, grace, stuck>>
vars == <<kind, style, hostEnd, stdin, out, sidecarEnd, call>>

HostStates == {"idle", "spawned", "waiting", "connecting", "up", "stopping",
               "failed", "killed", "clean", "unclean", "dead"}
MainStates == {"auth", "binding", "bound", "serving", "hung", "stopping"}

TypeOK ==
  /\ kind \in {"rust", "go", "python"} /\ style \in {"bundled", "smoke"}
  /\ host \in HostStates /\ writer \in BOOLEAN
  /\ stdin \in Seq({"AUTH", "SHUTDOWN"}) /\ out \in Seq({"READY", "log"})
  /\ Len(out) <= Room + 1
  /\ sidecar \in {"off", "ended"} \cup MainStates
  /\ status \in {"none", "ok", "error", "killed"}
  /\ grace \in {"none", "unbounded", "timed", "over"}
  /\ status = "none" <=> sidecar \in {"off"} \cup MainStates
  /\ writer => host \in {"spawned", "waiting", "connecting", "up", "stopping"}
  /\ stuck \in BOOLEAN /\ call \in {"none", "open", "done", "cut"}

Init ==
  /\ kind \in {"rust", "go", "python"} /\ style \in {"bundled", "smoke"}
  /\ host = "idle" /\ writer = FALSE /\ stdin = <<>> /\ out = <<>>
  /\ sidecar = "off" /\ status = "none" /\ grace = "none" /\ stuck = FALSE
  /\ call = "none"

Running == sidecar \in MainStates

-----------------------------------------------------------------------------
(* Ends. *)

(* The process ends, and with it whatever call it was serving. *)
Ends(how) ==
  /\ sidecar' = "ended" /\ status' = how /\ stuck' = FALSE /\ UNCHANGED grace
  /\ call' = IF call = "open" THEN "cut" ELSE call

(* A signal ends the process the host has spawned. The Python sidecar is its *)
(* child (of uv, or of the loader of a one-file bundle), and stays.          *)
KillChild ==
  IF Running /\ kind # "python"
    THEN Ends("killed") ELSE UNCHANGED <<sidecarEnd, call>>

\* Mutant of Drop: somebody still has the writing end.
DropInPart(state) ==
  /\ host' = state /\ UNCHANGED writer
  /\ IF style = "smoke" THEN KillChild ELSE UNCHANGED <<sidecarEnd, call>>

(* The handle is dropped, and with it the writing end of stdin; the one of   *)
(* sidecar.rs has kill_on_drop.                                              *)
Drop(state) ==
  /\ host' = state /\ writer' = FALSE
  /\ IF style = "smoke" THEN KillChild ELSE UNCHANGED <<sidecarEnd, call>>

\* Nobody can read any more what the sidecar prints.
OutBroken ==
  host = "dead" \/ (style = "smoke" /\ host \notin {"spawned", "waiting"})

\* The app reads lines that come in until the process is ready, and again
\* when it stops; its pipe threads discard the rest once the handle is gone.
Drained ==
  host \in {"waiting", "stopping", "failed", "clean", "unclean", "killed"}

-----------------------------------------------------------------------------
(* The host: start. *)

Spawn ==
  /\ host = "idle"
  /\ \/ host' = "spawned" /\ writer' = TRUE /\ sidecar' = "auth"
     \/ host' = "failed" /\ UNCHANGED <<writer, sidecar>>
  /\ UNCHANGED <<kind, style, stdin, out, status, grace, stuck, call>>

WriteAuth ==
  /\ host = "spawned"
  /\ \/ Running /\ host' = "waiting" /\ stdin' = Append(stdin, "AUTH")
        /\ UNCHANGED <<writer, sidecarEnd, call>>
     \/ ~Running /\ Drop("failed") /\ UNCHANGED stdin
  /\ UNCHANGED <<kind, style, out>>

(* READY is the first line of stdout, or the start fails; stderr is logged. *)
ReadLine ==
  /\ host = "waiting" /\ out # <<>> /\ out' = Tail(out)
  /\ host' = IF Head(out) = "READY" THEN "connecting" ELSE host
  /\ UNCHANGED <<kind, style, writer, stdin, sidecarEnd, call>>

(* The process is gone, or 30 seconds are over while READY may be under way. *)
StartFails ==
  /\ host = "waiting" /\ Drop("failed")
  /\ UNCHANGED <<kind, style, stdin, out>>

\* Mutant of Connect: a host that is stored as soon as READY has been read.
ConnectLazily ==
  /\ host = "connecting" /\ host' = "up" /\ UNCHANGED <<writer, sidecarEnd, call>>
  /\ UNCHANGED <<kind, style, stdin, out>>

(* AgentRuntime::connect: somebody listens. *)
Connect ==
  /\ host = "connecting"
  /\ \/ /\ sidecar = "serving" /\ host' = "up"
        /\ UNCHANGED <<writer, sidecarEnd, call>>
     \/ sidecar # "serving" /\ Drop("failed")
  /\ UNCHANGED <<kind, style, stdin, out>>

(* The host: stop. *)

(* SHUTDOWN is written, unless nobody can read it. sidecar.rs then closes    *)
(* the pipe; the app keeps it open.                                          *)
Shutdown ==
  /\ host = "up"
  /\ \/ /\ Running /\ host' = "stopping" /\ stdin' = Append(stdin, "SHUTDOWN")
        /\ writer' = (style = "bundled") /\ UNCHANGED <<sidecarEnd, call>>
     \/ ~Running /\ Drop("unclean") /\ UNCHANGED stdin
  /\ UNCHANGED <<kind, style, out>>

\* Mutant of DrainLine: shutdown waits for the process without reading.
DrainNothing ==
  /\ Drained /\ host \notin {"waiting", "stopping"} /\ style = "bundled"
  /\ out # <<>> /\ out' = Tail(out)
  /\ UNCHANGED <<kind, style, hostEnd, stdin, sidecarEnd, call>>

DrainLine ==
  /\ Drained /\ host # "waiting" /\ style = "bundled"
  /\ out # <<>> /\ out' = Tail(out)
  /\ UNCHANGED <<kind, style, hostEnd, stdin, sidecarEnd, call>>

(* The app learns of the end after the last line. *)
SeeEnd ==
  /\ host = "stopping" /\ sidecar = "ended" /\ (style = "bundled" => out = <<>>)
  /\ host' = IF status = "ok" THEN "clean" ELSE "unclean"
  /\ writer' = FALSE
  /\ UNCHANGED <<kind, style, stdin, out, sidecarEnd, call>>

(* Ten seconds are over, or (in the app) waiting fails, when nothing is      *)
(* killed.                                                                   *)
GiveUp ==
  /\ host = "stopping" /\ host' = "unclean" /\ writer' = FALSE
  /\ KillChild \/ (style = "bundled" /\ UNCHANGED <<sidecarEnd, call>>)
  /\ UNCHANGED <<kind, style, stdin, out>>

(* SidecarProcess::kill. *)
Kill ==
  /\ style = "smoke" /\ host = "up" /\ host' = "killed" /\ writer' = FALSE
  /\ KillChild
  /\ UNCHANGED <<kind, style, stdin, out>>

(* The host's process ends, at any time and without saying so. *)
HostEnds ==
  /\ host # "dead" /\ host' = "dead" /\ writer' = FALSE
  /\ UNCHANGED <<kind, style, stdin, out, sidecarEnd, call>>

-----------------------------------------------------------------------------
(* The sidecar. *)

sidecarFrame == <<kind, style, hostEnd>>

\* At the end of the pipe a read returns nothing, again and again.
AtEnd == stdin = <<>> /\ ~writer

ReadAuth ==
  /\ ~stuck /\ sidecar = "auth"
  /\ \/ /\ stdin # <<>> /\ stdin' = Tail(stdin)
        /\ sidecar' = "binding" /\ UNCHANGED <<status, grace, stuck, call>>
     \/ AtEnd /\ Ends("error") /\ UNCHANGED stdin
  /\ UNCHANGED <<sidecarFrame, out>>

Bind ==
  /\ ~stuck /\ sidecar = "binding"
  /\ (sidecar' = "bound" /\ UNCHANGED <<status, grace, stuck, call>>) \/ Ends("error")
  /\ UNCHANGED <<sidecarFrame, stdin, out>>

(* Printing READY, to the pipe of stdout, fails if nobody can read it. *)
Ready ==
  /\ ~stuck /\ sidecar = "bound"
  /\ \/ /\ ~OutBroken /\ out' = Append(out, "READY")
        /\ sidecar' = "serving" /\ UNCHANGED <<status, grace, stuck, call>>
     \/ OutBroken /\ Ends("error") /\ UNCHANGED out
  /\ UNCHANGED <<sidecarFrame, stdin>>

(* The server is not there although main has printed READY. Rust: it cannot  *)
(* be built, and the runtime waits for the thread that reads stdin. Go:      *)
(* Serve has failed, which main does not look at.                            *)
ServeFails ==
  /\ ~stuck /\ sidecar = "serving" /\ kind \in {"rust", "go"} /\ call = "none"
  /\ sidecar' = "hung" /\ UNCHANGED <<status, grace, stuck, call>>
  /\ UNCHANGED <<sidecarFrame, stdin, out>>

HungReads ==
  /\ ~stuck /\ sidecar = "hung" /\ (stdin # <<>> \/ ~writer)
  /\ Ends(IF kind = "rust" THEN "error" ELSE "ok")
  /\ UNCHANGED <<sidecarFrame, stdin, out>>

\* Mutant of ReadCommand: only a line is a command.
ReadCommandOnly ==
  /\ ~stuck /\ sidecar = "serving" /\ stdin # <<>>
  /\ stdin' = Tail(stdin) /\ sidecar' = "stopping"
  /\ grace' = IF kind = "python" THEN "timed" ELSE "unbounded"
  /\ UNCHANGED <<status, stuck, call, sidecarFrame, out>>

(* SHUTDOWN, or the end of stdin: Rust and Go stop gracefully on either,     *)
(* Python gives calls five seconds on the first and none on the second.      *)
ReadCommand ==
  /\ ~stuck /\ sidecar = "serving" /\ (stdin # <<>> \/ AtEnd)
  /\ sidecar' = "stopping"
  /\ stdin' = IF stdin = <<>> THEN <<>> ELSE Tail(stdin)
  /\ grace' = IF kind # "python" THEN "unbounded"
              ELSE IF stdin # <<>> THEN "timed" ELSE "over"
  /\ UNCHANGED <<status, stuck, call, sidecarFrame, out>>

GraceEnds ==
  /\ ~stuck /\ sidecar = "stopping" /\ grace = "timed" /\ grace' = "over"
  /\ UNCHANGED <<sidecar, status, stuck, call, sidecarFrame, stdin, out>>

\* Mutant of Stopped: Go's Stop for its GracefulStop.
StoppedAtOnce ==
  /\ ~stuck /\ sidecar = "stopping" /\ Ends("ok")
  /\ UNCHANGED <<sidecarFrame, stdin, out>>

(* The server has stopped: no call is left, or its time is over. *)
Stopped ==
  /\ ~stuck /\ sidecar = "stopping" /\ (call # "open" \/ grace = "over") /\ Ends("ok")
  /\ UNCHANGED <<sidecarFrame, stdin, out>>

Crash ==
  /\ Running /\ Ends("error")
  /\ UNCHANGED <<sidecarFrame, stdin, out>>

(* A line on stderr. The app's pipes have room for some of them, and who     *)
(* writes one more waits; the smoke test lets the sidecar inherit its own.   *)
Log ==
  /\ Running /\ style = "bundled"
  /\ IF host = "dead" THEN stuck' = FALSE /\ UNCHANGED out
     ELSE IF Len(out) < Room THEN stuck' = FALSE /\ out' = Append(out, "log")
     ELSE ~stuck /\ stuck' = TRUE /\ UNCHANGED out
  /\ UNCHANGED <<sidecarFrame, stdin, sidecar, status, grace, call>>

(* A call: opened by the host, ended by the sidecar, or dropped with the     *)
(* connection of a host that has ended.                                      *)
CallOpens ==
  /\ host = "up" /\ sidecar = "serving" /\ call = "none" /\ call' = "open"
  /\ UNCHANGED <<kind, style, hostEnd, stdin, out, sidecarEnd>>

CallEnds ==
  /\ Running /\ ~stuck /\ call = "open" /\ call' = "done"
  /\ UNCHANGED <<kind, style, hostEnd, stdin, out, sidecarEnd>>

CallDropped ==
  /\ Running /\ ~stuck /\ call = "open" /\ host = "dead" /\ call' = "cut"
  /\ UNCHANGED <<kind, style, hostEnd, stdin, out, sidecarEnd>>

HostNext ==
  \/ Spawn \/ WriteAuth \/ ReadLine \/ StartFails \/ Connect
  \/ Shutdown \/ DrainLine \/ SeeEnd \/ GiveUp \/ Kill \/ HostEnds

SidecarSteps ==
  \/ ReadAuth \/ Bind \/ Ready \/ HungReads \/ ReadCommand \/ GraceEnds \/ Stopped
  \/ CallDropped

SidecarNext == SidecarSteps \/ ServeFails \/ Crash \/ Log \/ CallEnds

Next == HostNext \/ SidecarNext \/ CallOpens

Spec == Init /\ [][Next]_vars

(* The host goes on with what it has begun, and reads what comes. Its        *)
(* timeouts are needed only where the sidecar may take for ever: the one of  *)
(* shutdown while a call is open. The sidecar's tasks run, however much it   *)
(* logs. Nobody has to stop the sidecar, to end a call or to die.            *)
Fairness ==
  /\ WF_vars(WriteAuth) /\ WF_vars(ReadLine) /\ WF_vars(Connect) /\ WF_vars(SeeEnd)
  /\ WF_vars(StartFails /\ ~Running)
  /\ WF_vars(DrainLine) /\ WF_vars(GiveUp /\ call = "open")
  /\ SF_vars(SidecarSteps) /\ SF_vars(stuck /\ Log)
  /\ WF_vars(HostEnds /\ host \in {"clean", "unclean"})

FairSpec == Spec /\ Fairness

-----------------------------------------------------------------------------
(* Properties. *)

Contract == INSTANCE SidecarContract WITH
  handle <- CASE host = "idle" -> "none"
              [] host \in {"spawned", "waiting", "connecting"} -> "starting"
              [] host \in {"up", "stopping"} -> host
              [] OTHER -> "gone",
  process <- CASE sidecar = "off" -> "off"
               [] sidecar = "ended" -> "ended"
               [] OTHER -> "running"

(* Host and sidecar together keep what ChatHost relies on: a host is stored  *)
(* only when the sidecar it belongs to runs, and never comes back once it is *)
(* gone.                                                                     *)
ContractHolds == Contract!Spec

(* Every start and every shutdown returns, even if the sidecar has filled    *)
(* the pipe that nobody reads between the two; and shutdown needs its        *)
(* timeout only if a call is open.                                           *)
StartAndStopReturn == Contract!Returns

(* No sidecar is left behind: neither by a start that gave up on it, nor by  *)
(* a shutdown that killed what turns out to be its parent, nor by a host     *)
(* that died without a word.                                                 *)
NothingIsLeft == Contract!NothingIsLeft

(* A shutdown that returns Ok has cut no call off, except Python's after the *)
(* grace it was given.                                                       *)
CleanMeansDrained ==
  host = "clean" => status = "ok" /\ (call = "cut" => grace = "over")
=============================================================================
