--------------------------- MODULE SessionMirror ---------------------------
(***************************************************************************)
(* SessionMirror and readRemoteHistory (packages/remote-proxy/src/         *)
(* mirror.ts, events.ts): a remote session copied, event by event, into a  *)
(* local session log, while the remote one goes on growing.                *)
(*                                                                         *)
(* The mirror taps the live events of its handle, reads the remote history *)
(* backwards page by page (broker.ts history), runs the caller's setup,    *)
(* publishes, drains what it buffered and then appends live.  Events and   *)
(* history pages share one FIFO stream.  The handle delivers every event   *)
(* once and in order (HandleFeed), so after a lost channel the events that *)
(* were in flight arrive again and only the history call is lost.          *)
(***************************************************************************)
EXTENDS Integers, Sequences, FiniteSets, FiniteSetsExt

CONSTANTS
  MaxSeq,     \* bound on the remote log
  PageSize,   \* events of one history page
  MaxDrops,   \* bound on lost channels
  MaxTries    \* bound on bootstraps of the session

ASSUME MirrorAssumption ==
  /\ MaxSeq \in Nat /\ MaxDrops \in Nat /\ MaxTries \in Nat
  /\ PageSize \in Nat \ {0}

VARIABLES
  log,       \* daemon: length of the session's event log
  wire,      \* lines on their way to the proxy
  request,   \* beforeSeq of the history call in flight, or Newest, or NoRequest
  phase,     \* where create() is, and how it ended
  seed,      \* events in the session that create() was given (resume), else 0
  history,   \* the seqs of the pages read so far, ascending
  buffered,  \* live events tapped before the mirror is live
  local,     \* the seqs of the local session log
  tries,     \* bootstraps so far
  drops,     \* channels lost so far
  raced      \* history variable: an event was emitted after the tap was set and
             \* before the daemon served the newest page, or was still on its
             \* way when a bootstrap was started again

vars == <<log, wire, request, phase, seed, history, buffered, local, tries, drops, raced>>

NoRequest == -2
Newest    == -1

\* The events from..to - 1 as a sequence of seqs.
Run(from, to) == [i \in 1..(to - from) |-> from + i - 1]

Phases == {"paging", "setup", "live", "failed", "diverged", "rejected", "disposed"}

TypeOK ==
  /\ log \in 0..MaxSeq
  /\ request \in -2..MaxSeq
  /\ phase \in Phases
  /\ seed \in 0..MaxSeq
  /\ history \in Seq(0..MaxSeq)
  /\ buffered \in Seq(0..MaxSeq)
  /\ local \in Seq(0..MaxSeq)
  /\ raced \in BOOLEAN
  /\ request # NoRequest => phase = "paging"

\* The attach has been answered and create() has tapped the handle and sent the
\* first history call.  A resume was given the log up to some earlier event.
Init ==
  /\ log \in 0..MaxSeq
  /\ wire = <<>>
  /\ request = Newest
  /\ phase = "paging"
  /\ seed \in 0..log
  /\ history = <<>>
  /\ buffered = <<>>
  /\ local = Run(0, seed)
  /\ tries = 1
  /\ drops = 0
  /\ raced = FALSE

----------------------------------------------------------------------------
(* The daemon *)

Event(n) == [t |-> "event", seq |-> n]

RemoteEvent ==
  /\ log < MaxSeq
  /\ phase # "disposed"
  /\ log' = log + 1
  /\ raced' = (raced \/ request = Newest)
  /\ wire' = Append(wire, Event(log))
  /\ UNCHANGED <<request, phase, seed, history, buffered, local, tries, drops>>

\* broker.history: at most PageSize events before `before`, and whether older
\* ones remain.
Page(before) ==
  LET end   == IF before = Newest THEN log ELSE Min({before, log})
      start == Max({0, end - PageSize})
  IN [t |-> "page", lo |-> start, hi |-> end, more |-> start > 0]

ServeHistory ==
  /\ request # NoRequest
  /\ request' = NoRequest
  /\ wire' = Append(wire, Page(request))
  /\ UNCHANGED <<log, phase, seed, history, buffered, local, tries, drops, raced>>

----------------------------------------------------------------------------
(* Bootstrap *)

\* Mutant: the next page is asked for with the first seq not yet excluded.
NextPageSkips(p) == p.lo - 1

\* The bound of the next page: the first seq of this one.
NextPage(p) == p.lo

\* One turn of the loop of readRemoteHistory.  The loop ends when the page is
\* the oldest, is empty, or reaches the seed; then the events from the seed on
\* are kept, checked for contiguity and appended to the session.
ReceivePage(p) ==
  LET pages == Run(p.lo, p.hi) \o history
      kept  == {i \in DOMAIN pages : pages[i] >= seed}
      contiguous == \A i \in kept : pages[i] = seed + Cardinality({j \in kept : j < i})
  IN
  /\ history' = pages
  /\ IF p.more /\ p.hi > p.lo /\ p.lo > seed
     THEN /\ request' = NextPage(p)
          /\ UNCHANGED <<phase, local>>
     ELSE /\ request' = NoRequest
          /\ phase' = IF contiguous THEN "setup" ELSE "diverged"
          /\ local' = IF contiguous THEN local \o Run(seed, seed + Cardinality(kept)) ELSE local
  /\ UNCHANGED buffered

\* Mutant: the seq of a live event is not compared with the local log.
AppendAny(events) == Len(events)

\* How many of the events, in order, appendEvent accepts before one whose seq
\* is not the next local seq freezes the mirror.
Accepted(events) ==
  Max({k \in 0..Len(events) : \A j \in 1..k : events[j] = Len(local) + j - 1})

AppendEvents(events) ==
  /\ local' = local \o SubSeq(events, 1, Accepted(events))
  /\ phase' = IF Accepted(events) = Len(events) THEN "live" ELSE "failed"

\* Mutant: events tapped during the bootstrap are dropped.
ReceiveEventDropped(n) ==
  /\ IF phase = "live" THEN AppendEvents(<<n>>) ELSE UNCHANGED <<phase, local>>
  /\ UNCHANGED <<request, history, buffered>>

\* The tap: buffered until the mirror is live, then appended; a frozen mirror
\* ignores it, and there is no tap once the bootstrap failed.
ReceiveEvent(n) ==
  /\ buffered' = IF phase \in {"paging", "setup"} THEN Append(buffered, n) ELSE buffered
  /\ IF phase = "live" THEN AppendEvents(<<n>>) ELSE UNCHANGED <<phase, local>>
  /\ UNCHANGED <<request, history>>

\* A page that arrives after its bootstrap was rejected cannot be: the call it
\* answers is the only thing such a bootstrap waits for.
Receive ==
  /\ wire # <<>>
  /\ phase # "disposed"
  /\ LET line == Head(wire) IN
       IF line.t = "page" THEN ReceivePage(line) ELSE ReceiveEvent(line.seq)
  /\ wire' = Tail(wire)
  /\ UNCHANGED <<log, seed, tries, drops, raced>>

\* setup is done: commit, publish session and agent, drain the buffer, go live.
GoLive ==
  /\ phase = "setup"
  /\ AppendEvents(buffered)
  /\ buffered' = <<>>
  /\ UNCHANGED <<log, wire, request, seed, history, tries, drops, raced>>

\* setup or an announcement throws: the tap is removed and create() rejects.
SetupFails ==
  /\ phase = "setup"
  /\ phase' = "rejected"
  /\ UNCHANGED <<log, wire, request, seed, history, buffered, local, tries, drops, raced>>

\* The events in flight, sent again: those after the handle's cursor.
Resent ==
  LET n == Cardinality({i \in DOMAIN wire : wire[i].t = "event"}) IN
  [i \in 1..n |-> Event(log - n + i - 1)]

\* Mutant: the history call is not rejected with its channel.
ChannelLostKeepsCall ==
  /\ drops < MaxDrops
  /\ phase # "disposed"
  /\ drops' = drops + 1
  /\ wire' = Resent
  /\ phase' = IF phase = "paging" THEN "rejected" ELSE phase
  /\ UNCHANGED <<log, request, seed, history, buffered, local, tries, raced>>

\* Mutant: the history call of a lost channel is never settled.
ChannelLostHangs ==
  /\ drops < MaxDrops
  /\ phase # "disposed"
  /\ drops' = drops + 1
  /\ wire' = Resent
  /\ request' = NoRequest
  /\ UNCHANGED <<log, phase, seed, history, buffered, local, tries, raced>>

\* Mutant: the handle re-attaches without its cursor and gets the whole log.
ChannelLostReplaysAll ==
  /\ drops < MaxDrops
  /\ phase # "disposed"
  /\ drops' = drops + 1
  /\ wire' = [i \in 1..log |-> Event(i - 1)]
  /\ request' = NoRequest
  /\ phase' = IF phase = "paging" THEN "rejected" ELSE phase
  /\ UNCHANGED <<log, seed, history, buffered, local, tries, raced>>

\* The channel drops and reconnects.  A history call in flight rejects, and the
\* bootstrap with it; events in flight are sent again.
ChannelLost ==
  /\ drops < MaxDrops
  /\ phase # "disposed"
  /\ drops' = drops + 1
  /\ wire' = Resent
  /\ request' = NoRequest
  /\ phase' = IF phase = "paging" THEN "rejected" ELSE phase
  /\ UNCHANGED <<log, seed, history, buffered, local, tries, raced>>

\* reconcile runs again: the handle is still attached, the session is fresh.
Retry ==
  /\ phase \in {"rejected", "diverged"}
  /\ tries < MaxTries
  /\ tries' = tries + 1
  /\ raced' = (raced \/ wire # <<>>)
  /\ phase' = "paging"
  /\ request' = Newest
  /\ seed' = 0
  /\ history' = <<>>
  /\ buffered' = <<>>
  /\ local' = <<>>
  /\ UNCHANGED <<log, wire, drops>>

\* dispose: the tap is removed and the handle detached.
Dispose ==
  /\ phase \in {"live", "failed"}
  /\ phase' = "disposed"
  /\ UNCHANGED <<log, wire, request, seed, history, buffered, local, tries, drops, raced>>

----------------------------------------------------------------------------

Next ==
  \/ RemoteEvent
  \/ ServeHistory
  \/ Receive
  \/ GoLive
  \/ SetupFails
  \/ ChannelLost
  \/ Retry
  \/ Dispose

\* The daemon answers, the stream delivers and setup ends (one way or the
\* other); nobody has to retry or to dispose.
Fairness == WF_vars(ServeHistory) /\ WF_vars(Receive) /\ WF_vars(GoLive \/ SetupFails)

Spec == Init /\ [][Next]_vars /\ Fairness

----------------------------------------------------------------------------
(* Properties *)

\* The seq invariant of mirror.ts 22: the event at position n of the local log
\* is event n of the remote log, whatever is lost, retried or arrives early; and
\* paging backwards through a log that grows at its head never finds the history
\* non-contiguous (events.ts readRemoteHistory, broker.ts history).
MirrorExact ==
  /\ Len(local) <= log /\ local = Run(0, Len(local))
  /\ phase # "diverged"

\* mirror.ts 5-6: nothing is lost while history is read.  A live mirror that
\* has nothing in flight holds the whole remote log.
NothingLost == phase = "live" /\ wire = <<>> => Len(local) = log

\* Lost channels, retries, resumes and busy logs never freeze a mirror; only an
\* event that is both buffered and in the history does (mirror.ts appendEvent).
OnlyRaceFreezes == phase = "failed" => raced

\* A mirror that is shown is whole, and only the one race ever takes it away
\* (mirror.ts bootstrap, drain, appendEvent).
MirrorInv == TypeOK /\ NothingLost /\ OnlyRaceFreezes

\* Every bootstrap ends: the page loop does not run for ever, however the log
\* grows meanwhile.
BootstrapEnds == phase \in {"paging", "setup"} ~> phase \notin {"paging", "setup"}

============================================================================
