---------------------------- MODULE SshTerminal ----------------------------
(***************************************************************************)
(* A terminal over SSH (subprocess-ssh/src/terminal.ts, its wrapper in     *)
(* wrapper.ts and the exec channel of remote-ssh/src/ssh-transport.ts):    *)
(* allocation with its roll back, the filter that drops what the PTY       *)
(* prints before a marker, operations on the foreground group and the      *)
(* termination of the terminal's whole session.                            *)
(*                                                                         *)
(* The remote session is two process groups, the program (leader) and what *)
(* it started in the background (kids); both may end by themselves, ignore *)
(* SIGTERM and SIGHUP, and write as they like, the bytes of the marker     *)
(* too: "a" "b" stands for the marker, a fresh random identifier, which    *)
(* what the shell prints before it cannot hold.                            *)
(***************************************************************************)
EXTENDS Naturals, Sequences, FiniteSets, FiniteSetsExt, SequencesExt

CONSTANTS Bytes,      \* what a program may write
          Noises,     \* what the shell may print before the marker
          MaxOutput,  \* bytes the program writes
          Ops         \* calls of signalForeground

Marker == <<"a", "b">>

\* Where the marker is in a byte string.
Offsets(bytes) ==
  {i \in 1..(Len(bytes) + 1 - Len(Marker)) : SubSeq(bytes, i, i + Len(Marker) - 1) = Marker}

ASSUME TerminalAssumption ==
  /\ MaxOutput \in Nat
  /\ {"a", "b"} \subseteq Bytes
  /\ \A n \in Noises : n \in Seq(Bytes) /\ Offsets(n) = {}

Groups == {"leader", "kids"}

VARIABLES
  conn,     \* the SSH connection: up or lost
  aborted,  \* spec.signal
  spawn,    \* where spawnSshTerminal is, or how it ended
  script,   \* the setup script on the host: none, running, ran, failed
  files,    \* files in the state directory of the terminal
  live,     \* process groups of the session that are alive
  stage,    \* the leader: none, wrapper, program
  chan,     \* exec channel: none, open, closing, closed
  exit,     \* what proc.done resolved to: none, code, signal, null
  printed,  \* bytes the program wrote
  wire,     \* bytes on their way to the pump
  filter,   \* BootstrapOutputFilter: pending bytes and published
  got,      \* bytes written to the output stream
  out,      \* the output stream: open, ended, destroyed
  done,     \* handle.done: pending, exited, terminated, lost
  sig,      \* terminationSignal
  op,       \* per operation: none, look, kill and the group it saw
  close,    \* where terminate is
  groups,   \* the groups its last ps saw
  blind     \* a ps failed and was read as an empty session

terminalVars == <<conn, aborted, spawn, script, files, live, stage, chan, exit, printed, wire, filter,
          got, out, done, sig, op, close, groups, blind>>
hostVars == <<script, files, live, stage>>
channelVars == <<chan, exit, printed, wire>>
outputVars == <<filter, got, out>>
handleVars == <<done, sig, op, close, groups, blind>>

NoOp == [at |-> "none", group |-> "none"]

TerminalInit ==
  /\ conn = "up" /\ aborted = FALSE /\ spawn = "setup"
  /\ script = "running" /\ files = {} /\ live = {} /\ stage = "none"
  /\ chan = "none" /\ exit = "none" /\ printed = <<>> /\ wire = <<>>
  /\ filter = [pending |-> <<>>, published |-> FALSE] /\ got = <<>> /\ out = "open"
  /\ done = "pending" /\ sig = "none" /\ op = [o \in Ops |-> NoOp]
  /\ close = "idle" /\ groups = {} /\ blind = FALSE

(***************************************************************************)
(* The remote host                                                         *)
(***************************************************************************)
SetupScript ==
  /\ script = "running"
  /\ \/ script' = "ran" /\ files' = files \cup {"setup"}
     \/ script' = "failed" /\ files' \in {files, files \cup {"setup"}}
  /\ UNCHANGED <<conn, aborted, spawn, live, stage, channelVars, outputVars, handleVars>>

\* The wrapper takes its setup files, publishes pid and tty, and becomes
\* the program behind the marker.
WrapperPublishes(file, before) ==
  /\ stage = "wrapper" /\ "leader" \in live /\ before \in files
  /\ files' = (files \ {"setup"}) \cup {file}
  /\ UNCHANGED <<conn, aborted, spawn, script, live, stage, channelVars, outputVars, handleVars>>

WrapperMarks ==
  /\ stage = "wrapper" /\ "leader" \in live /\ "tty" \in files
  /\ stage' = "program"
  /\ \E n \in Noises : wire' = IF chan # "closed" THEN wire \o n \o Marker ELSE wire
  /\ UNCHANGED <<conn, aborted, spawn, script, files, live, chan, exit, printed, outputVars, handleVars>>

\* dsh_fail: a diagnostic file, and exit 125.
WrapperFails ==
  /\ stage = "wrapper" /\ "leader" \in live
  /\ live' = live \ {"leader"} /\ files' = files \cup {"error"}
  /\ UNCHANGED <<conn, aborted, spawn, script, stage, channelVars, outputVars, handleVars>>

\* What is written once the channel is closed goes nowhere.
ProgramWrites ==
  /\ stage = "program" /\ "leader" \in live /\ chan # "closed" /\ Len(printed) < MaxOutput
  /\ \E b \in Bytes : printed' = Append(printed, b) /\ wire' = Append(wire, b)
  /\ UNCHANGED <<conn, aborted, spawn, hostVars, chan, exit, outputVars, handleVars>>

ProgramForks ==
  /\ stage = "program" /\ "leader" \in live /\ live' = live \cup {"kids"}
  /\ UNCHANGED <<conn, aborted, spawn, script, files, stage, channelVars, outputVars, handleVars>>

GroupEnds(g) ==
  /\ g \in live /\ live' = live \ {g}
  /\ UNCHANGED <<conn, aborted, spawn, script, files, stage, channelVars, outputVars, handleVars>>

(***************************************************************************)
(* The exec channel (adoptChannel): done resolves once, with the exit      *)
(* status of the leader or with null.                                      *)
(***************************************************************************)
ChannelCloses ==
  /\ chan \in {"open", "closing"} /\ exit = "none"
  /\ \/ "leader" \notin live /\ exit' \in {"code", "signal"}
     \/ chan = "closing" /\ exit' = "null"
  /\ chan' = "closed"
  /\ UNCHANGED <<conn, aborted, spawn, hostVars, printed, wire, outputVars, handleVars>>

\* kill(): close the channel, unless it is closed.
Kill == chan' = IF chan = "open" THEN "closing" ELSE chan

\* Mutant: kill waits for done alone.
KillWaits == chan = "none" \/ exit # "none"

\* kill settles with done or with the connection.
KillSettled == chan = "none" \/ exit # "none" \/ conn = "lost"

\* A channel of a lost connection closes without status, or never does.
ConnectionLost ==
  /\ conn = "up" /\ conn' = "lost"
  /\ IF chan \in {"open", "closing"} THEN chan' = "closed" /\ exit' \in {"null", "none"} /\ wire' = <<>>
                                     ELSE UNCHANGED <<chan, exit, wire>>
  /\ UNCHANGED <<aborted, spawn, hostVars, printed, outputVars, handleVars>>

\* The caller aborts: the wait for the boundary is rejected; the listener on
\* the channel outlives the allocation.
CallerAborts ==
  /\ ~aborted /\ aborted' = TRUE /\ Kill
  /\ IF spawn = "boundary" THEN spawn' = "refused" /\ out' = "destroyed" ELSE UNCHANGED <<spawn, out>>
  /\ UNCHANGED <<conn, hostVars, exit, printed, wire, filter, got, handleVars>>

(***************************************************************************)
(* The pump and BootstrapOutputFilter.push                                 *)
(***************************************************************************)
\* The end of a byte string that may be the start of the marker.
Retained(bytes) ==
  LET n == Min({Len(bytes), Len(Marker) - 1}) IN SubSeq(bytes, Len(bytes) - n + 1, Len(bytes))

Written(bytes) == got' = IF out = "open" THEN got \o bytes ELSE got

\* Mutant: the bytes of a chunk without marker are forgotten.
PushForgets(chunk) ==
  IF filter.published THEN Written(chunk) /\ UNCHANGED filter
  ELSE IF Offsets(chunk) = {} THEN UNCHANGED <<filter, got>>
  ELSE /\ filter' = [pending |-> <<>>, published |-> TRUE]
       /\ Written(SubSeq(chunk, Min(Offsets(chunk)) + Len(Marker), Len(chunk)))

Push(chunk) ==
  LET bytes == filter.pending \o chunk IN
  IF filter.published THEN Written(chunk) /\ UNCHANGED filter
  ELSE IF Offsets(bytes) = {}
       THEN filter' = [filter EXCEPT !.pending = Retained(bytes)] /\ UNCHANGED got
  ELSE /\ filter' = [pending |-> <<>>, published |-> TRUE]
       /\ Written(SubSeq(bytes, Min(Offsets(bytes)) + Len(Marker), Len(bytes)))

Pump ==
  /\ wire # <<>>
  /\ \E n \in 1..Len(wire) :
       Push(SubSeq(wire, 1, n)) /\ wire' = SubSeq(wire, n + 1, Len(wire))
  /\ UNCHANGED <<conn, aborted, spawn, hostVars, chan, exit, printed, out, handleVars>>

Drained == exit # "none" /\ wire = <<>>

PumpEnds ==
  /\ Drained /\ out = "open" /\ out' = "ended"
  /\ UNCHANGED <<conn, aborted, spawn, hostVars, channelVars, filter, got, handleVars>>

(***************************************************************************)
(* spawnSshTerminal.  A command that was aborted or lost its connection    *)
(* ends without exit status.                                               *)
(***************************************************************************)
Spawn(from, to) ==
  /\ spawn = from /\ spawn' = to
  /\ UNCHANGED <<conn, aborted, hostVars, channelVars, filter, got, handleVars>>

\* The catch: the output is destroyed and the channel closed.
Fails(from, why) ==
  /\ spawn = from /\ spawn' = why /\ out' = "destroyed" /\ Kill
  /\ UNCHANGED <<conn, aborted, hostVars, exit, printed, wire, filter, got, handleVars>>

CommandFails == aborted \/ conn = "lost"

SetupSettles ==
  \/ script = "ran" /\ ~CommandFails /\ Spawn("setup", "exec") /\ UNCHANGED out
  \/ (script = "failed" \/ CommandFails) /\ Fails("setup", "refused")

ExecOpens ==
  /\ spawn = "exec" /\ conn = "up" /\ spawn' = "boundary"
  /\ chan' = IF aborted THEN "closing" ELSE "open"
  /\ live' = live \cup {"leader"} /\ stage' = "wrapper"
  /\ UNCHANGED <<conn, aborted, script, files, exit, printed, wire, outputVars, handleVars>>

ExecFails == Fails("exec", "refused")

\* The boundary or the exit of the wrapper, once the pump is drained.
\* Mutant: an exit is classified before the pump is drained.
ExitUndrained == exit # "none" /\ ~filter.published /\ Fails("boundary", "noboundary")

BoundaryExit == Drained /\ ~filter.published /\ Fails("boundary", "noboundary")

BoundarySeen ==
  /\ filter.published
  /\ IF aborted THEN Fails("boundary", "refused") ELSE Spawn("boundary", "pid") /\ UNCHANGED out

\* cat of a state file; without exit status or file there is no answer.
ReadsFile(from, file, to) ==
  \/ ~CommandFails /\ file \in files /\ Spawn(from, to) /\ UNCHANGED out
  \/ (CommandFails \/ file \notin files) /\ Fails(from, "refused")

RollBack ==
  /\ spawn \in {"refused", "noboundary"} /\ KillSettled
  /\ spawn' = "failed"
  /\ files' = IF conn = "up" THEN {} ELSE files
  /\ UNCHANGED <<conn, aborted, script, live, stage, channelVars, outputVars, handleVars>>

(***************************************************************************)
(* The handle: its outcome and the operations on the foreground group.     *)
(***************************************************************************)
Handed == spawn = "handle"
topLevelExited == done # "pending"

\* waitForCommand: proc.done settled; the output ends with it.
DoneSettles ==
  /\ Handed /\ done = "pending" /\ exit # "none"
  /\ done' = CASE exit = "null" -> IF sig = "none" THEN "lost" ELSE "terminated"
               [] OTHER -> "exited"
  /\ out' = IF out = "open" THEN "ended" ELSE out
  /\ UNCHANGED <<conn, aborted, spawn, hostVars, channelVars, filter, got,
                 sig, op, close, groups, blind>>

OpVars == <<conn, aborted, spawn, script, files, stage, channelVars, outputVars,
            done, sig, close, groups, blind>>

\* Mutant: operations start on a terminal that is terminating.
OpStartsLate(o) ==
  /\ Handed /\ op[o] = NoOp
  /\ op' = [op EXCEPT ![o].at = "look"]
  /\ UNCHANGED <<live, OpVars>>

\* trackOperation refuses once the controller is aborted.
OpStarts(o) ==
  /\ Handed /\ op[o] = NoOp /\ close = "idle"
  /\ op' = [op EXCEPT ![o].at = "look"]
  /\ UNCHANGED <<live, OpVars>>

\* inspectForegroundOnce: a group of the terminal, or no answer.
OpLooks(o) ==
  /\ op[o].at = "look"
  /\ \/ \E g \in live : op' = [op EXCEPT ![o] = [at |-> "kill", group |-> g]]
     \/ op' = [op EXCEPT ![o] = NoOp]
  /\ UNCHANGED <<live, OpVars>>

\* The group may end of the signal, or the command fail.
OpSignals(o) ==
  /\ op[o].at = "kill" /\ op' = [op EXCEPT ![o] = NoOp]
  /\ \/ UNCHANGED live
     \/ conn = "up" /\ live' = live \ {op[o].group}
  /\ UNCHANGED OpVars

\* The abort of terminate settles what is in flight.
OpAborted(o) ==
  /\ op[o] # NoOp /\ close # "idle" /\ op' = [op EXCEPT ![o] = NoOp]
  /\ UNCHANGED <<live, OpVars>>

(***************************************************************************)
(* terminate: closeAfterOperations and closeOnce                           *)
(***************************************************************************)
CloseVars == <<conn, aborted, spawn, script, files, stage, exit, printed, wire, outputVars, done, op>>
CloseTo(to) == close' = to /\ UNCHANGED <<chan, live, sig, groups, blind, CloseVars>>

\* A failed teardown stays retryable.
Terminate == Handed /\ close \in {"idle", "failed"} /\ CloseTo("draining")

\* Without transport the channel is closed and the terminal given up.
OpsDrained ==
  /\ close = "draining" /\ \A o \in Ops : op[o] = NoOp
  /\ close' = (IF conn = "up" THEN "list" ELSE "over") /\ (IF conn = "up" THEN UNCHANGED chan ELSE Kill)
  /\ UNCHANGED <<live, sig, groups, blind, CloseVars>>

\* sessionGroups: ps, whose failure reads as an empty session.
Sees(seen) ==
  \/ conn = "up" /\ seen = live /\ UNCHANGED blind
  \/ seen = {} /\ blind' = TRUE

AfterGroups(seen) == IF seen = {} /\ topLevelExited THEN "verdict" ELSE IF seen = {} THEN "race" ELSE "kill"

ListGroups ==
  /\ close = "list"
  /\ \E seen \in SUBSET Groups :
       /\ Sees(seen) /\ groups' = seen
       /\ close' = IF seen # {} THEN "term" ELSE AfterGroups(seen)
  /\ UNCHANGED <<chan, live, sig, CloseVars>>

\* The signal is noted before it is sent.
TermSent ==
  /\ close = "term" /\ close' \in {"grace", "failed"} /\ sig' = "TERM"
  /\ UNCHANGED <<chan, live, groups, blind, CloseVars>>

\* awaitSessionEmpty: until ps sees nothing or the grace is over.
GracePolls ==
  /\ close = "grace"
  /\ \E seen \in SUBSET Groups :
       /\ Sees(seen) /\ groups' = seen
       /\ close' \in {AfterGroups(seen)} \cup (IF seen = {} THEN {} ELSE {"grace"})
  /\ UNCHANGED <<chan, live, sig, CloseVars>>

\* done or the grace.
RaceOver ==
  /\ close = "race" /\ CloseTo(IF topLevelExited THEN "verdict" ELSE "kill")

KillSent ==
  /\ close = "kill" /\ close' = "killing" /\ sig' = "KILL" /\ Kill
  /\ UNCHANGED <<live, groups, blind, CloseVars>>

\* awaitSessionEmpty with kill: what ps sees is killed, then ps again.
KillPolls ==
  /\ close = "killing" /\ KillSettled
  /\ \E seen \in SUBSET Groups :
       Sees(seen) /\ groups' = seen /\ close' = IF seen = {} THEN "lastrace" ELSE "shoot"
  /\ UNCHANGED <<chan, live, sig, CloseVars>>

\* Mutant: what was sent a signal counts as gone.
KillTrusted ==
  /\ close = "shoot" /\ close' = "lastrace" /\ groups' = {}
  /\ live' = IF conn = "up" THEN live \ groups ELSE live
  /\ UNCHANGED <<chan, sig, blind, CloseVars>>

KillShoots ==
  /\ close = "shoot"
  /\ \/ close' = "relook" /\ live' = IF conn = "up" THEN live \ groups ELSE live
     \/ close' = "failed" /\ UNCHANGED live
  /\ UNCHANGED <<chan, sig, groups, blind, CloseVars>>

\* Before the deadline the loop goes on, after it the last look counts.
KillLooks ==
  /\ close = "relook"
  /\ \/ CloseTo("killing")
     \/ /\ \E seen \in SUBSET Groups : Sees(seen) /\ groups' = seen
        /\ close' = "lastrace" /\ UNCHANGED <<chan, live, sig, CloseVars>>

\* A ps that could not be run fails the teardown; only the first one may
\* lose the connection.
PsThrows ==
  /\ \/ close \in {"grace", "relook"}
     \/ close = "killing" /\ KillSettled
     \/ close = "list" /\ conn = "up"
  /\ CloseTo("failed")

LastRaceOver == close = "lastrace" /\ CloseTo("verdict")

CloseVerdict ==
  /\ close = "verdict"
  /\ close' = IF groups = {} /\ topLevelExited THEN "remove" ELSE "failed"
  /\ UNCHANGED <<chan, live, sig, groups, blind, CloseVars>>

\* Best effort removal of the state directory.
StateRemoved ==
  /\ close = "remove" /\ close' = "over"
  /\ files' \in IF conn = "up" THEN {{}, files} ELSE {files}
  /\ UNCHANGED <<conn, aborted, spawn, script, stage, channelVars, outputVars, done, op,
                 live, sig, groups, blind>>

(***************************************************************************)
SpawnStep ==
  \/ SetupSettles \/ ExecOpens \/ ExecFails \/ BoundaryExit \/ BoundarySeen
  \/ ReadsFile("pid", "pid", "tty") \/ ReadsFile("tty", "tty", "handle") \/ RollBack

OpStep(o) == OpLooks(o) \/ OpSignals(o) \/ OpAborted(o)

CloseStep ==
  \/ OpsDrained \/ ListGroups \/ TermSent \/ GracePolls \/ RaceOver \/ KillSent
  \/ KillPolls \/ KillShoots \/ KillLooks \/ PsThrows \/ LastRaceOver \/ CloseVerdict \/ StateRemoved

TerminalNext ==
  \/ SetupScript \/ WrapperPublishes("pid", "setup") \/ WrapperPublishes("tty", "pid")
  \/ WrapperMarks \/ WrapperFails \/ ProgramWrites \/ ProgramForks
  \/ \E g \in Groups : GroupEnds(g)
  \/ ChannelCloses \/ ConnectionLost \/ CallerAborts \/ Pump \/ PumpEnds
  \/ SpawnStep \/ DoneSettles \/ Terminate \/ CloseStep
  \/ \E o \in Ops : OpStarts(o) \/ OpStep(o)

\* Local continuations run; commands settle, a closed channel reports it and
\* a grace passes, so that its loop is left in the end.
TerminalFairness ==
  /\ WF_terminalVars(SpawnStep) /\ WF_terminalVars(DoneSettles) /\ WF_terminalVars(CloseStep)
  /\ WF_terminalVars(chan = "closing" /\ ChannelCloses) /\ WF_terminalVars(Pump) /\ WF_terminalVars(PumpEnds)
  /\ SF_terminalVars(GracePolls /\ close' # "grace") /\ SF_terminalVars(KillLooks /\ close' = "lastrace")
  /\ \A o \in Ops : WF_terminalVars(OpStep(o))

TerminalSpec == TerminalInit /\ [][TerminalNext]_terminalVars /\ TerminalFairness

(***************************************************************************)
(* Properties                                                              *)
(***************************************************************************)

\* terminal.ts: the reader sees what the program wrote after the marker, in
\* order and nothing else, however the bytes are cut into chunks, and an
\* allocation is refused for a missing boundary only when the marker did not
\* come: not because it was split, nor because the channel closed behind it.
BoundaryExact ==
  /\ IsPrefix(got, printed)
  /\ spawn = "noboundary" => stage # "program" \/ conn = "lost" \/ aborted

\* terminal.ts: when terminate succeeds over a connection that stands, the
\* session of the terminal is empty, as far as ps worked, and no operation
\* that could signal a group is in flight; the outcome then names the
\* signal of the caller instead of a lost connection.
TerminateHonest ==
  close = "over" /\ conn = "up" =>
    /\ live = {} \/ blind
    /\ \A o \in Ops : op[o] = NoOp
    /\ done = "lost" => aborted

\* terminal.ts: terminate settles, whatever the processes, the operations in
\* flight and the connection do.
TerminateSettles == close = "draining" ~> close \in {"over", "failed"}

=============================================================================
