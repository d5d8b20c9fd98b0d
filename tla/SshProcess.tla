---------------------------- MODULE SshProcess ----------------------------
(***************************************************************************)
(* SshSubprocessHandle (packages/subprocess-ssh/src/process.ts) and the    *)
(* remote bash wrapper it starts (wrapper.ts): one command on a remote     *)
(* host, run over an SSH exec channel.                                     *)
(*                                                                         *)
(* The wrapper runs the child in a process group of its own, encodes its   *)
(* output into frames on the channel, writes the status file when the      *)
(* child exits and sends END when the encoders are drained.  The handle    *)
(* races END, FAIL, the status file and the end of the channel, while a    *)
(* termination ladder (TERM, KILL) and callers of waitForExit use further  *)
(* channels of the same connection.  Each step of the handle is a stretch  *)
(* between two awaits; a deadline may pass at any moment.                  *)
(*                                                                         *)
(* The group is its leader (the direct child) and possibly a descendant,   *)
(* which holds the output pipes.  Stdout carries the control frames among  *)
(* its own, so it is a queue; of stderr the frames are counted.  The two   *)
(* streams are pumped, lost and ended independently of each other.         *)
(***************************************************************************)
EXTENDS Integers, Sequences

CONSTANTS
  MaxOut,      \* bound on the frames the group writes, on both streams
  ChildFates   \* how the direct child may end by itself, some of Fates

\* An exit code up to 128; one above that reads like a signal ("high"); a signal;
\* a status above 128 that has no plain signal name ("odd": a larger exit code, or
\* a real-time signal).
Fates == {"exit", "high", "odd", "signal"}

ASSUME ProcessAssumption == MaxOut \in Nat
ASSUME FatesAssumption == ChildFates \subseteq Fates

Waiters == {"user", "run"}

VARIABLES
  wrapper,     \* the remote wrapper
  leader,      \* the direct child: "none", "live" or "gone"
  kids,        \* does a descendant live
  fate,        \* how the leader ended, see Fates
  status,      \* is the status file written (its text is StatusText)
  written,     \* frames' worth of stdout written by the group
  emitted,     \* stdout frames the encoder put on the channel
  link,        \* is the SSH connection up
  chan,        \* the exec channel: "none", "open", "eof" (remote), "cut" (local)
  out,         \* frames of stdout on the channel not yet pumped
  received,    \* stdout frames received
  errWritten,  \* the same of stderr, ...
  errEmitted,
  err,         \* ... of whose frames on the channel the number is kept
  errReceived,
  pumped,      \* have the pumps of both streams ended
  outErr,      \* outputTransportError
  launched,    \* deferred: "pending", "yes" or "no"
  started,     \* deferred: "pending", "yes" or "no"
  pgid,        \* is remotePgid known
  failed,      \* deferred of FAIL
  ended,       \* deferred of END
  first,       \* what settled the race of monitor() first
  run,         \* where run() is
  outcome,     \* how `done` settled
  cancelled,   \* canceledPreparation
  spawnFailed,
  expired,     \* outputDrainExpired; the spill is invalidated with it
  term,        \* where the termination attempt is
  requested,   \* terminationRequested
  failure,     \* terminationFailure
  sig,         \* is terminationSignal set
  quiet,       \* quiescenceProven
  spared,      \* a KILL could not be delivered (at most one)
  blind,       \* history: a probe without an answer made a live group quiescent
  wait         \* wait[w]: where the waitForExit call of w is

remoteVars == <<wrapper, leader, kids, fate, status, written, emitted>>
chanVars   == <<link, chan, out>>
pumpVars   == <<received, pumped, outErr>>
eventVars  == <<launched, started, pgid, failed, ended, first>>
runVars    == <<run, outcome, cancelled, spawnFailed, expired>>
termVars   == <<term, requested, failure, sig, quiet, spared, blind>>
errRest    == <<errWritten, errEmitted, errReceived>>
errVars    == <<errRest, err>>
vars == <<remoteVars, chanVars, pumpVars, eventVars, runVars, termVars, wait, errVars>>

TypeOK ==
  /\ wrapper \in {"none", "setup", "launched", "waiting", "draining", "ended", "failed", "dead"}
  /\ leader \in {"none", "live", "gone"}
  /\ fate \in Fates \union {"none"}
  /\ emitted \in 0..written /\ written \in 0..MaxOut /\ received \in 0..emitted
  /\ errEmitted \in 0..errWritten /\ errWritten \in 0..MaxOut
  /\ err \in Nat /\ errReceived \in 0..errEmitted
  /\ chan \in {"none", "open", "eof", "cut"}
  /\ out \in Seq({"start", "fail", "end", "data"})
  /\ launched \in {"pending", "yes", "no"} /\ started \in {"pending", "yes", "no"}
  /\ first \in {"none", "end", "fail", "status", "closed"}
  /\ run \in {"env", "exec", "race", "drain", "grace", "cut", "sweep", "reread",
              "rollback", "remove", "settled"}
  /\ outcome \in {"none", "exit", "signal", "cancelled", "rejected"}
  /\ term \in {"idle", "launch", "start", "settle", "TERM", "probe", "KILL", "last"}
  /\ wait \in [Waiters -> {"idle", "check", "probe", "true", "threw"}]
  /\ (run = "settled") = (outcome # "none")
  /\ run = "settled" => launched # "pending"

Init ==
  /\ wrapper = "none" /\ leader = "none" /\ kids = FALSE /\ fate = "none"
  /\ status = FALSE /\ written = 0 /\ emitted = 0
  /\ link = TRUE /\ chan = "none" /\ out = <<>>
  /\ received = 0 /\ pumped = FALSE /\ outErr = FALSE
  /\ launched = "pending" /\ started = "pending" /\ pgid = FALSE
  /\ failed = FALSE /\ ended = FALSE /\ first = "none"
  /\ run = "env" /\ outcome = "none" /\ cancelled = FALSE
  /\ spawnFailed = FALSE /\ expired = FALSE
  /\ term = "idle" /\ requested = FALSE /\ failure = FALSE /\ sig = FALSE /\ quiet = FALSE
  /\ spared = FALSE /\ blind = FALSE
  /\ errWritten = 0 /\ errEmitted = 0 /\ errReceived = 0 /\ err = 0
  /\ wait = [w \in Waiters |-> IF w = "user" THEN "check" ELSE "idle"]

GroupLive == leader = "live" \/ kids

----------------------------------------------------------------------------
(* The wrapper and the child *)

\* A frame reaches the channel while it is open, and nobody afterwards.
Emit(frame) == out' = IF chan = "open" THEN Append(out, frame) ELSE out

\* The end of the wrapper is the end of an open channel.
ChannelEof == chan' = IF chan = "open" THEN "eof" ELSE chan

\* dsh_fail: setup fails, or the process group cannot be published.
WrapperFails ==
  /\ wrapper \in {"setup", "launched"}
  /\ wrapper' = "failed"
  /\ Emit("fail")
  /\ ChannelEof
  /\ UNCHANGED <<errVars, leader, kids, fate, status, written, emitted, link, pumpVars, eventVars,
                 runVars, termVars, wait>>

WrapperLaunches ==
  /\ wrapper = "setup"
  /\ wrapper' = "launched"
  /\ leader' = "live"
  /\ UNCHANGED <<errVars, kids, fate, status, written, emitted, chanVars, pumpVars, eventVars,
                 runVars, termVars, wait>>

WrapperStarts ==
  /\ wrapper = "launched"
  /\ wrapper' = "waiting"
  /\ Emit("start")
  /\ UNCHANGED <<errVars, leader, kids, fate, status, written, emitted, link, chan, pumpVars,
                 eventVars, runVars, termVars, wait>>

\* The text of the status file and of END.  The shell reports a signal as a
\* status above 128, and the wrapper turns any such status that has a plain
\* signal name back into that signal, whoever produced it.
StatusText ==
  CASE fate \in {"signal", "high"} -> "signal"
    [] fate = "odd" -> "exit above 128"
    [] OTHER -> "exit"

\* `wait` returns and the status file is written, before the encoders drain.
WrapperReaps ==
  /\ wrapper = "waiting"
  /\ leader = "gone"
  /\ wrapper' = "draining"
  /\ status' = TRUE
  /\ UNCHANGED <<errVars, leader, kids, fate, written, emitted, chanVars, pumpVars, eventVars,
                 runVars, termVars, wait>>

\* Mutant: END does not wait for the encoders.
WrapperEndsEarly ==
  /\ wrapper = "draining"
  /\ wrapper' = "ended"
  /\ Emit("end")
  /\ ChannelEof
  /\ UNCHANGED <<errVars, leader, kids, fate, status, written, emitted, link, pumpVars,
                 eventVars, runVars, termVars, wait>>

\* END follows the last frame: nobody holds an output pipe and both are encoded.
WrapperEnds ==
  /\ wrapper = "draining"
  /\ ~kids
  /\ emitted = written /\ errEmitted = errWritten
  /\ wrapper' = "ended"
  /\ Emit("end")
  /\ ChannelEof
  /\ UNCHANGED <<errVars, leader, kids, fate, status, written, emitted, link, pumpVars,
                 eventVars, runVars, termVars, wait>>

\* The wrapper is killed, by a fault of the host or by the end of its channel.
WrapperDies ==
  /\ wrapper \in {"setup", "launched", "waiting", "draining"}
  /\ wrapper' = "dead"
  /\ ChannelEof
  /\ UNCHANGED <<errVars, leader, kids, fate, status, written, emitted, link, out, pumpVars, eventVars,
                 runVars, termVars, wait>>

\* What is written after `done` settled is of no interest any more.
GroupWrites ==
  /\ GroupLive
  /\ run # "settled"
  /\ written + errWritten < MaxOut
  /\ written' = written + 1
  /\ UNCHANGED <<errVars, wrapper, leader, kids, fate, status, emitted, chanVars, pumpVars,
                 eventVars, runVars, termVars, wait>>

GroupWritesErr ==
  /\ GroupLive
  /\ run # "settled"
  /\ written + errWritten < MaxOut
  /\ errWritten' = errWritten + 1
  /\ UNCHANGED <<errEmitted, errReceived, err, remoteVars, chanVars, pumpVars,
                 eventVars, runVars, termVars, wait>>

EncoderFlushes ==
  /\ emitted < written
  /\ emitted' = emitted + 1
  /\ Emit("data")
  /\ UNCHANGED <<errVars, wrapper, leader, kids, fate, status, written, link, chan, pumpVars,
                 eventVars, runVars, termVars, wait>>

ErrEncoderFlushes ==
  /\ errEmitted < errWritten
  /\ errEmitted' = errEmitted + 1
  /\ err' = IF chan = "open" THEN err + 1 ELSE err
  /\ UNCHANGED <<errWritten, errReceived, remoteVars, chanVars, pumpVars,
                 eventVars, runVars, termVars, wait>>

LeaderForks ==
  /\ leader = "live"
  /\ kids' = TRUE
  /\ UNCHANGED <<errVars, wrapper, leader, fate, status, written, emitted, chanVars, pumpVars,
                 eventVars, runVars, termVars, wait>>

LeaderExits ==
  /\ leader = "live"
  /\ leader' = "gone"
  /\ fate' \in ChildFates
  /\ UNCHANGED <<errVars, wrapper, kids, status, written, emitted, chanVars, pumpVars, eventVars,
                 runVars, termVars, wait>>

KidsExit ==
  /\ kids
  /\ kids' = FALSE
  /\ UNCHANGED <<errVars, wrapper, leader, fate, status, written, emitted, chanVars, pumpVars,
                 eventVars, runVars, termVars, wait>>

\* The connection is lost for good; frames in flight may be lost with it, on
\* either stream.
ConnectionLost ==
  /\ link
  /\ link' = FALSE
  /\ chan' = IF chan = "open" THEN "cut" ELSE chan
  /\ out' \in {out, <<>>}
  /\ err' \in {err, 0}
  /\ UNCHANGED <<errRest, remoteVars, pumpVars, eventVars, runVars, termVars, wait>>

----------------------------------------------------------------------------
(* Frames, the status poll and the end of the channel *)

\* The race of monitor() is settled by the first of its promises.
Settles(kind) == first' = IF run = "race" /\ first = "none" THEN kind ELSE first

\* pump, FrameDecoder.push and onControl, of stdout.
Pump ==
  /\ out # <<>>
  /\ out' = Tail(out)
  /\ received' = IF Head(out) = "data" THEN received + 1 ELSE received
  /\ pgid' = (pgid \/ Head(out) = "start")
  /\ started' = IF Head(out) = "start" /\ started = "pending" THEN "yes" ELSE started
  /\ failed' = (failed \/ Head(out) = "fail")
  /\ ended' = (ended \/ Head(out) = "end")
  /\ IF Head(out) \in {"fail", "end"} THEN Settles(Head(out)) ELSE UNCHANGED first
  /\ UNCHANGED <<errVars, remoteVars, link, chan, pumped, outErr, launched,
                 runVars, termVars, wait>>

\* The same of stderr, which carries no control frames.
PumpErr ==
  /\ err > 0
  /\ err' = err - 1
  /\ errReceived' = errReceived + 1
  /\ UNCHANGED <<errWritten, errEmitted, remoteVars, chanVars, pumpVars, eventVars,
                 runVars, termVars, wait>>

\* A stream that ends now ends with an error: a frame is cut in two, unless a
\* termination or an expired drain explains it, or the connection is lost.
MayFail == ~link \/ ((chan = "cut" \/ wrapper = "dead") /\ ~expired /\ ~requested)

\* One stream fails while frames of the other are still to be pumped.
StreamFails ==
  /\ chan \in {"eof", "cut"}
  /\ (out = <<>>) # (err = 0)
  /\ MayFail
  /\ outErr' = TRUE
  /\ UNCHANGED <<errVars, remoteVars, chanVars, received, pumped, eventVars, runVars, termVars, wait>>

\* Both streams have ended, with an error or without.
PumpsEnd ==
  /\ chan \in {"eof", "cut"}
  /\ out = <<>> /\ err = 0
  /\ ~pumped
  /\ pumped' = TRUE
  /\ outErr' \in {outErr} \union (IF MayFail THEN {TRUE} ELSE {})
  /\ UNCHANGED <<errVars, remoteVars, chanVars, received, eventVars, runVars, termVars, wait>>

\* The exec channel reports its end, perhaps before its frames are pumped.
ChannelClosed ==
  /\ run = "race"
  /\ first = "none"
  /\ chan \in {"eof", "cut"}
  /\ Settles("closed")
  /\ UNCHANGED <<errVars, remoteVars, chanVars, pumpVars, launched, started, pgid, failed, ended,
                 runVars, termVars, wait>>

\* pollStatus reads a status file that is there.
StatusPolled ==
  /\ run = "race"
  /\ first = "none"
  /\ status
  /\ link
  /\ Settles("status")
  /\ UNCHANGED <<errVars, remoteVars, chanVars, pumpVars, launched, started, pgid, failed, ended,
                 runVars, termVars, wait>>

----------------------------------------------------------------------------
(* run() and monitor() *)

\* terminate(), which changes nothing while an attempt runs or after quiescence.
BeginTermination ==
  IF quiet \/ term # "idle" THEN UNCHANGED <<term, requested, failure>>
  ELSE term' = "launch" /\ requested' = TRUE /\ failure' = FALSE

\* Mutant of Catch: no roll-back of a group that was published.
CatchKeepsGroup ==
  /\ cancelled' = (requested /\ started = "pending" /\ ~ended)
  /\ spawnFailed' = (started = "pending" /\ ~ended /\ ~failed)
  /\ started' = IF started = "pending" THEN "no" ELSE started
  /\ launched' = IF launched = "pending" THEN "no" ELSE launched
  /\ run' = "remove"
  /\ UNCHANGED <<term, requested, failure, wait>>

\* Mutant of Catch: the deferred exec channel is left pending.
CatchKeepsDeferred ==
  /\ cancelled' = (requested /\ started = "pending" /\ ~ended)
  /\ spawnFailed' = (started = "pending" /\ ~ended /\ ~failed)
  /\ started' = IF started = "pending" THEN "no" ELSE started
  /\ run' = IF pgid /\ ~quiet THEN "rollback" ELSE "remove"
  /\ wait' = [wait EXCEPT !["run"] = "check"]
  /\ UNCHANGED <<launched, term, requested, failure>>

\* The catch block of run(), up to its first await.
Catch ==
  /\ cancelled' = (requested /\ started = "pending" /\ ~ended)
  /\ spawnFailed' = (started = "pending" /\ ~ended /\ ~failed)
  /\ started' = IF started = "pending" THEN "no" ELSE started
  /\ launched' = IF launched = "pending" THEN "no" ELSE launched
  /\ IF pgid /\ ~quiet
     THEN /\ run' = "rollback"
          /\ wait' = [wait EXCEPT !["run"] = "check"]
          /\ BeginTermination
     ELSE /\ run' = "remove"
          /\ UNCHANGED <<term, requested, failure, wait>>

Caught ==
  /\ Catch
  /\ first' = "none"
  /\ UNCHANGED <<pgid, failed, ended, sig, quiet, spared, blind, outcome>>

\* Mutant of Verdict: any exit after a request is reported as a signal.
VerdictAlwaysSignal == IF requested THEN "signal" ELSE "exit"

\* parseStatusText, and the conversion of an exit code above 128 once a
\* termination has sent a signal.
Verdict ==
  IF StatusText = "signal" \/ (StatusText = "exit above 128" /\ sig) THEN "signal" ELSE "exit"

Finish ==
  IF outErr THEN Caught
  ELSE /\ outcome' = Verdict
       /\ run' = "settled"
       /\ UNCHANGED <<eventVars, cancelled, spawnFailed, termVars, wait>>

\* The environment of the host is read, or not.
RunEnvironment ==
  /\ run = "env"
  /\ \/ /\ link
        /\ run' = "exec"
        /\ UNCHANGED <<eventVars, outcome, cancelled, spawnFailed, termVars, wait>>
     \/ Caught
  /\ UNCHANGED <<errVars, remoteVars, link, chan, out, pumpVars, expired>>

\* The exec channel is opened and the header written, or not.
RunExec ==
  /\ run = "exec"
  /\ \/ /\ link
        /\ run' = "race"
        /\ launched' = "yes"
        /\ chan' = "open"
        /\ wrapper' = "setup"
        /\ UNCHANGED <<started, pgid, failed, ended, first, outcome, cancelled,
                       spawnFailed, termVars, wait>>
     \/ /\ Caught
        /\ UNCHANGED <<chan, wrapper>>
  /\ UNCHANGED <<errVars, leader, kids, fate, status, written, emitted, link, out, pumpVars, expired>>

RaceSettled ==
  /\ run = "race"
  /\ \/ first = "fail" /\ Caught
     \/ /\ first \in {"end", "status", "closed"}
        /\ run' = CASE first = "end" -> "drain" [] first = "status" -> "grace"
                    [] first = "closed" -> "sweep"
        /\ first' = "none"
        /\ UNCHANGED <<launched, started, pgid, failed, ended, outcome, cancelled, spawnFailed, termVars, wait>>
  /\ UNCHANGED <<errVars, remoteVars, chanVars, pumpVars, expired>>

\* proc.kill(): what is still on the channel may be lost.
CutChannel ==
  /\ chan' = IF chan = "open" THEN "cut" ELSE chan
  /\ out' \in {out, <<>>}
  /\ err' \in {err, 0}
  /\ UNCHANGED <<link, errRest>>

\* END, within the grace: the pumps are given theirs.
GraceEnds ==
  /\ run = "grace"
  /\ ended
  /\ run' = "drain"
  /\ UNCHANGED <<errVars, remoteVars, chanVars, pumpVars, eventVars, outcome, cancelled, spawnFailed,
                 expired, termVars, wait>>

\* Mutant of GraceExpires: the pumps are awaited without a deadline.
GraceAwaitsPumps ==
  /\ run = "grace"
  /\ ~ended
  /\ pumped
  /\ run' = "cut"
  /\ expired' = TRUE
  /\ CutChannel
  /\ UNCHANGED <<remoteVars, pumpVars, eventVars, outcome, cancelled, spawnFailed, termVars, wait>>

\* No END within the grace: a descendant holds the pipe; the channel is cut.
GraceExpires ==
  /\ run = "grace"
  /\ ~ended
  /\ run' = "cut"
  /\ expired' = TRUE
  /\ CutChannel
  /\ UNCHANGED <<remoteVars, pumpVars, eventVars, outcome, cancelled, spawnFailed, termVars, wait>>

\* The pumps have ended or their grace is over.
PumpsGiven ==
  /\ run \in {"drain", "cut"}
  /\ Finish
  /\ UNCHANGED <<errVars, remoteVars, chanVars, pumpVars, expired>>

\* The same after the end of the channel: now it is known what was received.
SweepDone ==
  /\ run = "sweep"
  /\ \/ failed /\ Caught
     \/ ~failed /\ ended /\ Finish
     \/ /\ ~failed /\ ~ended
        /\ run' = "reread"
        /\ UNCHANGED <<eventVars, outcome, cancelled, spawnFailed, termVars, wait>>
  /\ UNCHANGED <<errVars, remoteVars, chanVars, pumpVars, expired>>

\* readStatusOnce: the last source of an exit fact.
Reread ==
  /\ run = "reread"
  /\ IF link /\ status
     THEN expired' = TRUE /\ Finish
     ELSE UNCHANGED expired /\ Caught
  /\ UNCHANGED <<errVars, remoteVars, chanVars, pumpVars>>

RolledBack ==
  /\ run = "rollback"
  /\ wait["run"] \in {"true", "threw"}
  /\ run' = "remove"
  /\ UNCHANGED <<errVars, remoteVars, chanVars, pumpVars, eventVars, outcome, cancelled, spawnFailed,
                 expired, termVars, wait>>

\* The state directory is removed and `done` settles.
Removed ==
  /\ run = "remove"
  /\ run' = "settled"
  /\ outcome' = IF cancelled THEN "cancelled" ELSE "rejected"
  /\ cancelled' = FALSE
  /\ UNCHANGED <<errVars, remoteVars, chanVars, pumpVars, eventVars, spawnFailed, expired, termVars, wait>>

----------------------------------------------------------------------------
(* terminate() *)

\* The caller, its abort signal or the disposal of the runtime.
Terminate ==
  /\ ~quiet
  /\ term = "idle"
  /\ BeginTermination
  /\ UNCHANGED <<errVars, remoteVars, chanVars, pumpVars, eventVars, runVars, sig, quiet, spared, blind, wait>>

\* markQuiescent ends an attempt.
Quiesce == quiet' = TRUE /\ failure' = FALSE /\ term' = "idle"

TermLaunched ==
  /\ term = "launch"
  /\ launched # "pending"
  /\ IF launched = "no" THEN Quiesce
     ELSE term' = "start" /\ UNCHANGED <<quiet, failure>>
  /\ UNCHANGED <<errVars, remoteVars, chanVars, pumpVars, eventVars, runVars, requested, sig, spared, blind, wait>>

\* Without a process group, closing the channel is all that can be done.
TermStarted ==
  /\ term = "start"
  /\ \/ started = "no" /\ term' = "settle" /\ CutChannel /\ UNCHANGED <<quiet, failure, sig>>
     \/ started = "yes" /\ ~link /\ Quiesce /\ UNCHANGED <<chanVars, errVars, sig>>
     \/ /\ started = "yes" /\ link
        /\ term' = "TERM" /\ sig' = TRUE
        /\ UNCHANGED <<chanVars, errVars, quiet, failure>>
  /\ UNCHANGED <<remoteVars, pumpVars, eventVars, runVars, requested, spared, blind, wait>>

TermSettled ==
  /\ term = "settle"
  /\ run = "settled"
  /\ Quiesce
  /\ UNCHANGED <<errVars, remoteVars, chanVars, pumpVars, eventVars, runVars, requested, sig, spared, blind, wait>>

\* TERM is delivered to the group, whose members die or not (one that handles it
\* exits by itself), or it cannot be delivered.
TermSignals ==
  /\ term = "TERM"
  /\ \/ /\ link
        /\ term' = "probe"
        /\ leader' \in {leader} \union (IF leader = "live" THEN {"gone"} ELSE {})
        /\ fate' = IF leader' # leader THEN "signal" ELSE fate
        /\ kids' \in {kids, FALSE}
     \/ /\ ~link
        /\ term' = "probe"
        /\ UNCHANGED <<leader, fate, kids>>
     \/ /\ term' = "KILL"
        /\ UNCHANGED <<leader, fate, kids>>
  /\ UNCHANGED <<errVars, wrapper, status, written, emitted, link, chan, out, pumpVars, eventVars,
                 runVars, requested, failure, sig, quiet, spared, blind, wait>>

\* Mutant of TermProbes: the grace never ends.
TermProbesForever ==
  /\ term = "probe"
  /\ ~(link /\ GroupLive)
  /\ Quiesce
  /\ UNCHANGED <<errVars, remoteVars, chanVars, pumpVars, eventVars, runVars, requested, sig, spared, blind, wait>>

\* probeGroup: only an exit code 0 counts as alive.  A channel that ends without
\* one, because it broke or the caller's signal closed it, reads like a dead
\* group (ssh-transport.ts adoptChannel, util.ts execCapture).
ProbeDead  == ~(link /\ GroupLive)
ProbeBlind == link /\ GroupLive /\ blind' = TRUE

\* waitGroupDead: dead, out of reach, or alive when the grace is over.
TermProbes ==
  /\ term = "probe"
  /\ \/ ProbeDead /\ Quiesce /\ UNCHANGED blind
     \/ ProbeBlind /\ Quiesce
     \/ link /\ GroupLive /\ term' = "KILL" /\ UNCHANGED <<quiet, failure, blind>>
  /\ UNCHANGED <<errVars, remoteVars, chanVars, pumpVars, eventVars, runVars, requested, sig,
                 spared, wait>>

\* KILL is delivered, or not, and the channel is closed.
TermKills ==
  /\ term = "KILL"
  /\ term' = "last"
  /\ \/ /\ link
        /\ leader' = IF leader = "live" THEN "gone" ELSE leader
        /\ fate' = IF leader = "live" THEN "signal" ELSE fate
        /\ kids' = FALSE
        /\ CutChannel
        /\ UNCHANGED spared
     \/ /\ ~(link /\ spared)
        /\ spared' = (spared \/ link)
        /\ chan' = IF chan = "open" THEN "cut" ELSE chan
        /\ UNCHANGED <<leader, fate, kids, link, out, errVars>>
  /\ UNCHANGED <<wrapper, status, written, emitted, pumpVars, eventVars, runVars, requested,
                 failure, sig, quiet, blind, wait>>

\* The last probe: quiescence, or the failure that waitForExit will throw.
TermEnds ==
  /\ term = "last"
  /\ \/ ProbeDead /\ Quiesce /\ UNCHANGED blind
     \/ ProbeBlind /\ Quiesce
     \/ link /\ GroupLive /\ term' = "idle" /\ failure' = TRUE /\ UNCHANGED <<quiet, blind>>
  /\ UNCHANGED <<errVars, remoteVars, chanVars, pumpVars, eventVars, runVars, requested, sig,
                 spared, wait>>

----------------------------------------------------------------------------
(* waitForExit(), called by the user and by the roll-back of run() *)

\* The call of run() is over; the user may call again at any time.
WaitOver(w, how) == wait' = [wait EXCEPT ![w] = IF w = "run" THEN how ELSE "check"]

WaitReturns(w, quiesced) ==
  /\ WaitOver(w, "true")
  /\ quiet' = (quiet \/ quiesced)
  /\ failure' = (failure /\ ~quiesced)
  /\ UNCHANGED term

\* The top of the loop and, unless END has told it, the read of the status
\* file.  Without an exit the loop turns, whatever the probe that follows finds.
WaitChecks(w) ==
  /\ wait[w] = "check"
  /\ \/ quiet /\ WaitReturns(w, FALSE)
     \/ ~quiet /\ failure /\ WaitOver(w, "threw") /\ UNCHANGED <<quiet, failure, term>>
     \/ ~quiet /\ ~failure /\ (spawnFailed \/ ~link) /\ WaitReturns(w, TRUE)
     \/ /\ ~quiet /\ ~failure /\ ~spawnFailed /\ link
        /\ ended \/ run = "settled" \/ status
        /\ wait' = [wait EXCEPT ![w] = "probe"]
        /\ UNCHANGED <<quiet, failure, term>>
  /\ UNCHANGED <<errVars, remoteVars, chanVars, pumpVars, eventVars, runVars, requested, sig, spared, blind>>

\* Mutant of WaitProbes: the direct child alone decides.
WaitProbesLeader(w) ==
  /\ wait[w] = "probe"
  /\ WaitReturns(w, TRUE)
  /\ UNCHANGED <<errVars, remoteVars, chanVars, pumpVars, eventVars, runVars, requested, sig, spared, blind>>

\* The child has exited; a known group is probed, and is quiescent if no member
\* is alive, the connection is lost or the probe has no answer.
WaitProbes(w) ==
  /\ wait[w] = "probe"
  /\ \/ /\ ~pgid \/ ProbeDead
        /\ WaitReturns(w, TRUE)
        /\ UNCHANGED blind
     \/ /\ pgid
        /\ ProbeBlind
        /\ WaitReturns(w, TRUE)
     \/ /\ pgid /\ link /\ GroupLive
        /\ wait' = [wait EXCEPT ![w] = "check"]
        /\ UNCHANGED <<quiet, failure, term, blind>>
  /\ UNCHANGED <<errVars, remoteVars, chanVars, pumpVars, eventVars, runVars, requested, sig,
                 spared>>

\* The caller's signal aborts the wait where it stops cleanly (the read of the
\* status file, the tick, a probe that found the group alive), or an exec call
\* fails.  The roll-back of run() passes no signal.
WaitStops(w) ==
  /\ wait[w] \in {"check", "probe"}
  /\ link
  /\ WaitOver(w, "threw")
  /\ UNCHANGED <<errVars, remoteVars, link, chan, out, pumpVars, eventVars, runVars, termVars>>

----------------------------------------------------------------------------

WrapperStep == WrapperLaunches \/ WrapperStarts \/ WrapperReaps \/ WrapperEnds
               \/ EncoderFlushes \/ ErrEncoderFlushes
GroupStep   == GroupWrites \/ GroupWritesErr \/ LeaderForks \/ LeaderExits \/ KidsExit
\* What the host does once it is out of reach concerns nobody here.
HostStep    == link /\ (WrapperStep \/ WrapperFails \/ WrapperDies \/ GroupStep)

RunStep     == \/ RunEnvironment \/ RunExec \/ RaceSettled \/ GraceEnds \/ GraceExpires
               \/ PumpsGiven \/ SweepDone \/ Reread \/ RolledBack \/ Removed
TermStep    == \/ TermLaunched \/ TermStarted \/ TermSettled \/ TermSignals
               \/ TermProbes \/ TermKills \/ TermEnds
WaitStep(w) == WaitChecks(w) \/ WaitProbes(w)

Next ==
  \/ HostStep
  \/ ConnectionLost
  \/ Pump \/ PumpErr \/ StreamFails \/ PumpsEnd
  \/ ChannelClosed \/ StatusPolled
  \/ RunStep
  \/ Terminate \/ TermStep
  \/ \E w \in Waiters : WaitStep(w) \/ WaitStops(w)

\* A caller that does not read its pipe holds the pump up, until the output is
\* released or destroyed.
PumpMustGoOn    == Pump /\ (Head(out) # "data" \/ expired \/ requested)
PumpErrMustGoOn == PumpErr /\ (expired \/ requested)

\* The wrapper, the event loop, its timers and polls make progress; the child
\* may run for ever and nobody has to terminate it or to wait for it.
Fairness ==
  /\ WF_vars(link /\ WrapperStep)
  /\ WF_vars(PumpMustGoOn) /\ WF_vars(PumpErrMustGoOn) /\ WF_vars(PumpsEnd)
  /\ WF_vars(ChannelClosed) /\ WF_vars(StatusPolled)
  /\ WF_vars(RunStep)
  /\ WF_vars(TermStep)
  /\ WF_vars(WaitStep("run"))

Spec == Init /\ [][Next]_vars /\ Fairness

----------------------------------------------------------------------------
(* Properties *)

\* subprocess-types.ts waitForExit: the tree, not just the direct child.  When a
\* handle whose start was announced declares its group quiescent over a live
\* connection, no member of the group is alive (process.ts markQuiescent).  The
\* one exception is the code's: a probe whose channel ends without an exit code,
\* as that of an aborted waitForExit does, is taken for a dead group.
QuiescenceProven ==
  [][quiet' /\ ~quiet /\ started = "yes" /\ link => ~GroupLive \/ blind']_vars

\* `done` reports what happened to the direct child: it is gone, and the exit
\* fact is its own, however END, status file, channel and termination raced.  An
\* exit is reported for an exit or a status above 128 without a signal name;
\* a signal for a signal, for an exit code that reads like one (wrapper.ts
\* 153-159), or for any status above 128 once a termination was requested.
OutcomeFaithful ==
  outcome \in {"exit", "signal"} =>
    /\ leader = "gone"
    /\ outcome = "exit" => fate \in {"exit", "odd"}
    /\ outcome = "signal" => fate \in {"signal", "high"} \/ (fate = "odd" /\ requested)

\* A command that fails after it was published leaves nothing running, unless
\* the connection is gone, the roll-back itself reported its failure, or the
\* group was declared quiescent: before START was received, or by a probe
\* without an answer (process.ts run, catch).
RollbackLeavesNothing ==
  outcome = "rejected" /\ link /\ started = "yes" /\ GroupLive =>
    wait["run"] = "threw" \/ quiet

\* When an exit fact is reported and the drain did not expire, the output is
\* complete: nobody writes any more, the spills are whole, and once the pumps
\* have ended every frame was received (wrapper.ts 114-118, process.ts monitor).
\* END comes behind the frames of stdout but not behind those of stderr, which
\* are lost if the connection is.
OutputComplete ==
  outcome \in {"exit", "signal"} /\ ~expired =>
    /\ ~kids /\ emitted = written /\ errEmitted = errWritten
    /\ pumped /\ ~requested => received = written /\ (link => errReceived = errWritten)

\* What a finished command reports, outcome and output, is what it did
\* (process.ts monitor, run).
ProcessInv == TypeOK /\ OutcomeFaithful /\ OutputComplete

\* What ends the wait for the command by itself.
Over == leader = "gone" \/ wrapper = "failed" \/ ~link

\* Neither the caller of `done` nor the caller of terminate() waits for ever.
\* `done` settles once the child is gone, the wrapper gave up or the connection is
\* lost, even if a descendant holds the pipe or the caller never reads.  A
\* requested termination settles it too, whatever the group ignores, or reports
\* its failure, unless a probe without an answer was taken for success
\* (process.ts monitor, terminate).
CommandSettles == Over \/ requested ~> run = "settled" \/ (~Over /\ (failure \/ blind))

===========================================================================
