-------------------------- MODULE TargetConnection --------------------------
(***************************************************************************)
(* TargetConnection (packages/remote-client/src/connection.ts): one daemon *)
(* channel of the client, the attempts to open it, the backoff timer and   *)
(* the re-attach of the session handles after a reconnect.                 *)
(*                                                                         *)
(* An open attempt is an asynchronous function; its steps are the stretches*)
(* between two awaits.  Attempt i starts the backend process i, whose      *)
(* standard output is the byte stream of peer i.  The stream of a process  *)
(* may end at any moment; the `closed` callback of the peer runs later.    *)
(*                                                                         *)
(* The transport and the remote process are external; what can go wrong    *)
(* with them is counted by `faults` and bounded by MaxFaults.              *)
(***************************************************************************)
EXTENDS Integers, FiniteSets

CONSTANTS
  Handles,       \* session handles, each of its own session
  NoHandle,      \* "no re-attach call in flight"
  MaxFaults,     \* bound on connection failures and lost streams
  MaxAttempts,   \* reconnectMaxAttempts
  MaxBackoff     \* reconnectMaxDelayMs, in units of reconnectInitialDelayMs

ASSUME NoHandleAssumption == NoHandle \notin Handles
ASSUME BoundsAssumption ==
  /\ MaxFaults \in Nat
  /\ MaxAttempts \in Nat \ {0}
  /\ MaxBackoff \in Nat \ {0}

\* Every attempt but the last ends in a fault, so this many are enough.
Opens == 1..(MaxFaults + 1)

VARIABLES
  state,      \* "connected" or "down"
  peer,       \* the attempt whose peer is current (this.peer, this.proc), or 0
  attempt,    \* the attempt callers share (this.attempt), or 0
  timer,      \* is a backoff timer armed
  attempts,   \* consecutive failed attempts
  backoff,    \* delay of the next timer
  disposed,   \* close() was called
  closing,    \* the process close() still has to kill, or 0
  pc,         \* pc[i]: where attempt i is
  proc,       \* proc[i]: its backend process and byte stream
  noticed,    \* attempts whose peer.closed callback has run
  todo,       \* handles the re-attach loop has not reached yet
  calling,    \* the handle whose re-attach call is in flight, or NoHandle
  handle,     \* handle[h]: not created, attached, detached by its user, or torn
              \* down because the channel failed or the daemon refused it
  served,     \* handles the daemon has an attachment for on the current stream
  faults,     \* faults so far
  unsteady    \* history variable: a stream ended between the handshake and the
              \* end of the re-attach loop of the same attempt

chanVars == <<state, peer, attempt, timer, attempts, backoff>>
loopVars == <<todo, calling, handle, served>>
vars == <<chanVars, disposed, closing, pc, proc, noticed, loopVars, faults, unsteady>>

TypeOK ==
  /\ state \in {"connected", "down"}
  /\ peer \in Opens \union {0}
  /\ attempt \in Opens \union {0}
  /\ timer \in BOOLEAN
  /\ attempts \in 0..(MaxFaults + 1)
  /\ backoff \in 1..MaxBackoff
  /\ disposed \in BOOLEAN
  /\ closing \in Opens \union {0}
  /\ pc \in [Opens -> {"idle", "connecting", "handshake", "verified", "reattach", "ended"}]
  /\ proc \in [Opens -> {"none", "up", "lost", "killed"}]
  /\ noticed \in SUBSET Opens
  /\ todo \in SUBSET Handles
  /\ calling \in Handles \union {NoHandle}
  /\ handle \in [Handles -> {"none", "attached", "detached", "torn", "refused"}]
  /\ served \in SUBSET Handles
  /\ faults \in 0..MaxFaults
  /\ unsteady \in BOOLEAN

Init ==
  /\ state = "down"
  /\ peer = 0
  /\ attempt = 0
  /\ timer = FALSE
  /\ attempts = 0
  /\ backoff = 1
  /\ disposed = FALSE
  /\ closing = 0
  /\ pc = [i \in Opens |-> "idle"]
  /\ proc = [i \in Opens |-> "none"]
  /\ noticed = {}
  /\ todo = {}
  /\ calling = NoHandle
  /\ handle = [h \in Handles |-> "none"]
  /\ served = {}
  /\ faults = 0
  /\ unsteady = FALSE

----------------------------------------------------------------------------
(* Helpers *)

Subscribed == {h \in Handles : handle[h] = "attached"}

\* The attempts that are between launchAttempt and their settlement.
Running == {i \in Opens : pc[i] \notin {"idle", "ended"}}

\* scheduleReconnect, given the failure count and the state it reads.
ScheduleReconnect(st, count) ==
  timer' = (timer \/ (~disposed /\ st # "connected" /\ count < MaxAttempts))

\* launchAttempt: runOpen runs up to its first await.
LaunchAttempt ==
  \E i \in Opens :
    /\ pc[i] = "idle"
    /\ \A j \in Opens : j < i => pc[j] # "idle"
    /\ pc' = [pc EXCEPT ![i] = "connecting"]
    /\ attempt' = i

\* Mutant: the backoff is not capped.
AttemptFailedUncapped(i) ==
  /\ pc' = [pc EXCEPT ![i] = "ended"]
  /\ attempt' = IF attempt = i THEN 0 ELSE attempt
  /\ attempts' = attempts + 1
  /\ backoff' = backoff * 2
  /\ ScheduleReconnect(state, attempts + 1)
  /\ UNCHANGED <<state, peer>>

\* The rejection handler of launchAttempt.
AttemptFailed(i) ==
  /\ pc' = [pc EXCEPT ![i] = "ended"]
  /\ attempt' = IF attempt = i THEN 0 ELSE attempt
  /\ attempts' = attempts + 1
  /\ backoff' = IF backoff * 2 > MaxBackoff THEN MaxBackoff ELSE backoff * 2
  /\ ScheduleReconnect(state, attempts + 1)
  /\ UNCHANGED <<state, peer>>

\* An environment failure: there is only a bounded number of them.
Fault == faults < MaxFaults /\ faults' = faults + 1

----------------------------------------------------------------------------
(* Callers and the timer *)

\* Mutant: callers do not share the attempt in flight.
EnsureConnectedAlone ==
  /\ ~disposed
  /\ state # "connected"
  /\ timer' = FALSE
  /\ LaunchAttempt
  /\ UNCHANGED <<state, peer, attempts, backoff, disposed, closing, proc, noticed,
                 loopVars, faults, unsteady>>

EnsureConnected ==
  /\ ~disposed
  /\ state # "connected"
  /\ timer' = FALSE
  /\ IF attempt = 0 THEN LaunchAttempt ELSE UNCHANGED <<pc, attempt>>
  /\ UNCHANGED <<state, peer, attempts, backoff, disposed, closing, proc, noticed,
                 loopVars, faults, unsteady>>

TimerFires ==
  /\ timer
  /\ timer' = FALSE
  /\ IF disposed \/ state = "connected" \/ attempt # 0
     THEN UNCHANGED <<pc, attempt>>
     ELSE LaunchAttempt
  /\ UNCHANGED <<state, peer, attempts, backoff, disposed, closing, proc, noticed,
                 loopVars, faults, unsteady>>

----------------------------------------------------------------------------
(* runOpen *)

\* connector.connect or transport.exec rejects.
OpenFails(i) ==
  /\ pc[i] = "connecting"
  /\ Fault
  /\ AttemptFailed(i)
  /\ UNCHANGED <<disposed, closing, proc, noticed, loopVars, unsteady>>

OpenSpawned(i) ==
  /\ pc[i] = "connecting"
  /\ pc' = [pc EXCEPT ![i] = "handshake"]
  /\ proc' = [proc EXCEPT ![i] = "up"]
  /\ UNCHANGED <<chanVars, disposed, closing, noticed, loopVars, faults, unsteady>>

\* The handshake is refused or times out (a fault), or its stream has ended:
\* the process is killed and the attempt rejects.
HandshakeFails(i) ==
  /\ pc[i] = "handshake"
  /\ IF proc[i] = "up" THEN Fault ELSE UNCHANGED faults
  /\ proc' = [proc EXCEPT ![i] = "killed"]
  /\ AttemptFailed(i)
  /\ UNCHANGED <<disposed, closing, noticed, loopVars, unsteady>>

HandshakeOk(i) ==
  /\ pc[i] = "handshake"
  /\ proc[i] = "up"
  /\ pc' = [pc EXCEPT ![i] = "verified"]
  /\ UNCHANGED <<chanVars, disposed, closing, proc, noticed, loopVars, faults, unsteady>>

\* Mutant: an attempt that close() overtook rejects and forgets its process.
SupersededLeaks(i) ==
  /\ pc[i] = "verified"
  /\ disposed
  /\ AttemptFailed(i)
  /\ UNCHANGED <<disposed, closing, proc, noticed, loopVars, faults, unsteady>>

\* After the handshake: a channel closed meanwhile kills the process, otherwise
\* the peer is adopted and the re-attach loop starts.
Superseded(i) ==
  /\ pc[i] = "verified"
  /\ disposed
  /\ proc' = [proc EXCEPT ![i] = "killed"]
  /\ AttemptFailed(i)
  /\ UNCHANGED <<disposed, closing, noticed, loopVars, faults, unsteady>>

\* Mutant: no re-attach after a reconnect.
AdoptOnly(i) ==
  /\ pc[i] = "verified"
  /\ ~disposed
  /\ pc' = [pc EXCEPT ![i] = "reattach"]
  /\ peer' = i
  /\ UNCHANGED <<state, attempt, timer, attempts, backoff, disposed, closing, proc,
                 noticed, loopVars, faults, unsteady>>

Adopt(i) ==
  /\ pc[i] = "verified"
  /\ ~disposed
  /\ pc' = [pc EXCEPT ![i] = "reattach"]
  /\ peer' = i
  /\ todo' = Subscribed
  /\ UNCHANGED <<state, attempt, timer, attempts, backoff, disposed, closing, proc,
                 noticed, calling, handle, served, faults, unsteady>>

\* One turn of the re-attach loop: a handle detached before its turn is skipped;
\* for the others a session.attach is issued, or fails at once without a peer.
ReattachCall(i, h) ==
  /\ pc[i] = "reattach"
  /\ calling = NoHandle
  /\ h \in todo
  /\ todo' = todo \ {h}
  /\ calling' = IF handle[h] = "attached" /\ peer = i THEN h ELSE NoHandle
  /\ handle' = [handle EXCEPT ![h] = IF @ = "attached" /\ peer # i THEN "torn" ELSE @]
  /\ UNCHANGED <<chanVars, disposed, closing, pc, proc, noticed, served, faults, unsteady>>

\* The daemon grants it (perhaps only in read mode, after a second call) ...
Reattached(i) ==
  /\ pc[i] = "reattach"
  /\ calling # NoHandle
  /\ proc[i] = "up"
  /\ calling' = NoHandle
  /\ served' = served \union {calling}
  /\ UNCHANGED <<chanVars, disposed, closing, pc, proc, noticed, todo, handle, faults, unsteady>>

\* ... or refuses it, or the stream ends first: the handle is torn down.
ReattachFails(i) ==
  /\ pc[i] = "reattach"
  /\ calling # NoHandle
  /\ IF proc[i] = "up" THEN Fault ELSE UNCHANGED faults
  /\ calling' = NoHandle
  /\ handle' = [handle EXCEPT ![calling] =
                  IF @ # "attached" THEN @ ELSE IF proc[i] = "up" THEN "refused" ELSE "torn"]
  /\ UNCHANGED <<chanVars, disposed, closing, pc, proc, noticed, todo, served, unsteady>>

\* The loop is over: the channel is declared connected, and the fulfilment
\* handler of launchAttempt clears the attempt and the failure count.
OpenDone(i) ==
  /\ pc[i] = "reattach"
  /\ todo = {}
  /\ calling = NoHandle
  /\ pc' = [pc EXCEPT ![i] = "ended"]
  /\ state' = "connected"
  /\ attempt' = IF attempt = i THEN 0 ELSE attempt
  /\ attempts' = 0
  /\ backoff' = 1
  /\ UNCHANGED <<peer, timer, disposed, closing, proc, noticed, loopVars, faults, unsteady>>

----------------------------------------------------------------------------
(* The handles of the channel *)

\* RemoteClient.attach got its answer: the new handle subscribes.
Subscribe(h) ==
  /\ state = "connected"
  /\ peer # 0
  /\ handle[h] = "none"
  /\ handle' = [handle EXCEPT ![h] = "attached"]
  /\ served' = IF proc[peer] = "up" THEN served \union {h} ELSE served
  /\ UNCHANGED <<chanVars, disposed, closing, pc, proc, noticed, todo, calling, faults, unsteady>>

\* handle.detach: local teardown first; the session.detach call fails fast, and
\* is forgotten, while the channel is not connected.
DetachHandle(h) ==
  /\ handle[h] = "attached"
  /\ handle' = [handle EXCEPT ![h] = "detached"]
  /\ served' = IF state = "connected" /\ peer # 0 THEN served \ {h} ELSE served
  /\ UNCHANGED <<chanVars, disposed, closing, pc, proc, noticed, todo, calling, faults, unsteady>>

----------------------------------------------------------------------------
(* The end of a stream, and close() *)

StreamLost(i) ==
  /\ proc[i] = "up"
  /\ Fault
  /\ proc' = [proc EXCEPT ![i] = "lost"]
  /\ unsteady' = (unsteady \/ pc[i] \in {"verified", "reattach"})
  /\ served' = {}
  /\ UNCHANGED <<chanVars, disposed, closing, pc, noticed, todo, calling, handle>>

\* Mutant: the channel goes down and no retry is scheduled.
PeerClosedQuietly(i) ==
  /\ proc[i] \in {"lost", "killed"}
  /\ pc[i] = "reattach" \/ (pc[i] = "ended" /\ proc[i] = "lost")
  /\ i \notin noticed
  /\ noticed' = noticed \union {i}
  /\ IF disposed THEN UNCHANGED chanVars
     ELSE /\ state' = "down"
          /\ peer' = 0
          /\ UNCHANGED <<attempt, timer, attempts, backoff>>
  /\ UNCHANGED <<disposed, closing, pc, proc, loopVars, faults, unsteady>>

\* onPeerClosed, registered when the peer was adopted.  The generation counter
\* only moves in close(), so the test on it is the test on `disposed`.
PeerClosed(i) ==
  /\ proc[i] \in {"lost", "killed"}
  /\ pc[i] = "reattach" \/ (pc[i] = "ended" /\ proc[i] = "lost")
  /\ i \notin noticed
  /\ noticed' = noticed \union {i}
  /\ IF disposed THEN UNCHANGED chanVars
     ELSE /\ state' = "down"
          /\ peer' = 0
          /\ attempts' = 0
          /\ backoff' = 1
          /\ ScheduleReconnect("down", 0)
          /\ UNCHANGED attempt
  /\ UNCHANGED <<disposed, closing, pc, proc, loopVars, faults, unsteady>>

Close ==
  /\ ~disposed
  /\ disposed' = TRUE
  /\ timer' = FALSE
  /\ state' = "down"
  /\ closing' = peer
  /\ peer' = 0
  /\ UNCHANGED <<attempt, attempts, backoff, pc, proc, noticed, loopVars, faults, unsteady>>

\* close() kills the process once the detach calls are answered or rejected.
CloseKills ==
  /\ closing # 0
  /\ proc' = [proc EXCEPT ![closing] = "killed"]
  /\ closing' = 0
  /\ served' = {}
  /\ UNCHANGED <<chanVars, disposed, pc, noticed, todo, calling, handle, faults, unsteady>>

----------------------------------------------------------------------------

AttemptStep(i) ==
  \/ OpenFails(i) \/ OpenSpawned(i)
  \/ HandshakeFails(i) \/ HandshakeOk(i)
  \/ Superseded(i) \/ Adopt(i)
  \/ \E h \in Handles : ReattachCall(i, h)
  \/ Reattached(i) \/ ReattachFails(i)
  \/ OpenDone(i)

Next ==
  \/ EnsureConnected
  \/ TimerFires
  \/ \E i \in Opens : AttemptStep(i)
  \/ \E i \in Opens : StreamLost(i)
  \/ \E i \in Opens : PeerClosed(i)
  \/ \E h \in Handles : Subscribe(h) \/ DetachHandle(h)
  \/ Close
  \/ CloseKills

\* Every await of an attempt ends (the RPC calls have a deadline), timers fire,
\* and the event loop runs the callbacks that are due.  Nothing is assumed of
\* the users of the channel.
Fairness ==
  /\ \A i \in Opens : WF_vars(AttemptStep(i)) /\ WF_vars(PeerClosed(i))
  /\ WF_vars(TimerFires)
  /\ WF_vars(CloseKills)

Spec == Init /\ [][Next]_vars /\ Fairness

----------------------------------------------------------------------------
(* Properties *)

\* Concurrent callers, the timer and the retries share one attempt: never two
\* opens at once, never two backend processes running
\* (connection.ts ensureConnected, scheduleReconnect).
OneOpen ==
  /\ Running = IF attempt = 0 THEN {} ELSE {attempt}
  /\ Cardinality({i \in Opens : proc[i] = "up"}) <= 1

\* close() never leaves a backend process behind, whichever await of an open
\* attempt it interrupts (connection.ts close, runOpen).
CloseLeavesNothing ==
  disposed ~> [](\A i \in Opens : proc[i] # "up")

Live == state = "connected" /\ peer # 0 /\ proc[peer] = "up"

GaveUp == state = "down" /\ attempt = 0 /\ ~timer /\ attempts >= MaxAttempts

Dropped == \E i \in Opens : proc[i] = "lost" /\ pc[i] \in {"reattach", "ended"}

\* connection.ts 8-10: when the byte stream of the channel drops, the channel
\* retries until it is connected again or has used up its attempts, if no
\* stream drops in the middle of a re-attach loop.
Recovers == Dropped ~> (Live \/ GaveUp \/ disposed \/ unsteady)

\* types.ts 151-152: dropping the channel does not invalidate the handle.  Only
\* the daemon's own refusal, a closed channel or a second drop in the middle of
\* the re-attach loop tears a handle down (connection.ts reattachAll).
HandlesSurvive ==
  ~disposed /\ ~unsteady => \A h \in Handles : handle[h] # "torn"

\* Once an attempt is over, the daemon has an attachment for every handle that
\* is still attached: none is forgotten by a reconnect (connection.ts 324-354).
ServesAttached == Live /\ attempt = 0 => Subscribed \subseteq served

\* Handles outlive the channel, on both sides: none is torn down by a drop and
\* none is forgotten by the daemon after a reconnect (connection.ts reattachAll).
ChannelInv == TypeOK /\ HandlesSurvive /\ ServesAttached

============================================================================
