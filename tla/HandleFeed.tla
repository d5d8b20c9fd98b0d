----------------------------- MODULE HandleFeed -----------------------------
(***************************************************************************)
(* DaemonAgentHandle and RemoteClient.attach (packages/remote-client/src/  *)
(* handle.ts, client.ts): what the user of one session sees of its events  *)
(* and of its write control, over a channel that drops and reconnects.     *)
(*                                                                         *)
(* The daemon is the broker of SessionBroker reduced to this client: one   *)
(* log, one attachment, one lease, and a rival client that may take the    *)
(* lease.  Both directions of the channel are FIFO.                        *)
(*                                                                         *)
(* JsonRpcPeer handles the lines of one chunk in a synchronous loop, so    *)
(* the code after `await call(...)`, a microtask, runs only after the rest *)
(* of the chunk.  Any number of the lines after a response may share its   *)
(* chunk; `early` records which of them mattered.                          *)
(***************************************************************************)
EXTENDS Integers, Sequences

CONSTANTS
  Handles,    \* the handle objects the client may create for the session
  NoHandle,   \* "no handle"
  MaxSeq,     \* bound on the log
  MaxCalls,   \* bound on the calls made
  MaxDrops,   \* bound on lost channels
  MaxQueue    \* bound on the lines in flight to the client

ASSUME FeedAssumption ==
  /\ NoHandle \notin Handles
  /\ MaxSeq \in Nat /\ MaxCalls \in Nat /\ MaxDrops \in Nat /\ MaxQueue \in Nat

VARIABLES
  log,        \* daemon: length of the event log
  att,        \* daemon: is this client attached
  lease,      \* daemon: "free", "me", "rival", or "stale" (my lost connection)
  up,         \* requests on their way to the daemon
  down,       \* events, control changes and responses on their way back
  chan,       \* "up", "down", or "opening" (the re-attach loop)
  todo,       \* handles the re-attach loop has not reached
  calls,      \* number of calls made; the id of the last one
  pend,       \* pend[h]: the call of h that is in flight
  cont,       \* continuations of answered calls that have not run yet
  registry,   \* the handle RemoteClient.attach would return, or NoHandle
  handle,     \* handle[h]: "none", "live" or "detached"
  mode,       \* mode[h]
  first,      \* first[h]: initialLastSeq
  cursor,     \* cursor[h]: lastSeq
  delivered,  \* delivered[h]: events handed to onEvent
  drops,      \* channels lost so far
  early,      \* history: the kinds of lines handled too early (EarlyLine)
  orphaned    \* history: this connection may hold an attachment no handle knows of

daemonVars == <<log, att, lease>>
wireVars   == <<up, down>>
callVars   == <<calls, pend, cont>>
handleVars == <<registry, handle, mode, first, cursor, delivered>>
vars == <<daemonVars, wireVars, chan, todo, callVars, handleVars, drops, early, orphaned>>

Ops == {"attach", "acquire", "release", "reattach", "retry"}
NoCall == [id |-> 0, op |-> "none", mode |-> "read", since |-> -2]

Modes  == {"read", "write"}
Calls  == [id : Nat \ {0}, op : Ops, mode : Modes, since : -2..MaxSeq]

\* Requests and lines; what is sent is built by Request, Event, Control and
\* Result below.
Sent == [method : {"attach", "release", "detach"}, id : Nat, mode : Modes, force : BOOLEAN,
         since : -2..MaxSeq]
Lines ==
  [t : {"event"}, seq : 0..MaxSeq] \union
  [t : {"control"}, holder : {"me", "rival", "none"},
   reason : {"acquired", "preempted", "released", "disconnected"}] \union
  [t : {"result"}, id : Nat, ok : BOOLEAN, last : -1..MaxSeq]

\* A reconnect costs two calls at most, the re-attach and its retry in read mode.
TypeOK ==
  /\ log \in 0..MaxSeq
  /\ att \in BOOLEAN
  /\ lease \in {"free", "me", "rival", "stale"}
  /\ up \in Seq(Sent) /\ down \in Seq(Lines)
  /\ chan \in {"up", "down", "opening"}
  /\ todo \in SUBSET Handles
  /\ calls \in 0..(MaxCalls + 2 * MaxDrops) /\ drops \in 0..MaxDrops
  /\ pend \in [Handles -> Calls \union {NoCall}]
  /\ cont \in Seq([h : Handles, call : Calls, ok : BOOLEAN, last : -1..MaxSeq])
  /\ registry \in Handles \union {NoHandle}
  /\ handle \in [Handles -> {"none", "live", "detached"}]
  /\ mode \in [Handles -> Modes]
  /\ first \in [Handles -> -1..MaxSeq]
  /\ cursor \in [Handles -> -1..MaxSeq]
  /\ delivered \in [Handles -> Seq(0..MaxSeq)]
  /\ early \subseteq {"event", "control"}
  /\ orphaned \in BOOLEAN

Init ==
  /\ log \in 0..MaxSeq
  /\ att = FALSE
  /\ lease \in {"free", "rival"}
  /\ up = <<>>
  /\ down = <<>>
  /\ chan = "up"
  /\ todo = {}
  /\ calls = 0
  /\ pend = [h \in Handles |-> NoCall]
  /\ cont = <<>>
  /\ registry = NoHandle
  /\ handle = [h \in Handles |-> "none"]
  /\ mode = [h \in Handles |-> "read"]
  /\ first = [h \in Handles |-> -1]
  /\ cursor = [h \in Handles |-> -1]
  /\ delivered = [h \in Handles |-> <<>>]
  /\ drops = 0
  /\ early = {}
  /\ orphaned = FALSE

----------------------------------------------------------------------------
(* Lines *)

Event(n)         == [t |-> "event", seq |-> n]
Control(h, why)  == [t |-> "control", holder |-> h, reason |-> why]
Result(i, ok)    == [t |-> "result", id |-> i, ok |-> ok, last |-> log - 1]

\* A request; `since` is -2 when sinceSeq is omitted.
Request(m, i, md, force, since) ==
  [method |-> m, id |-> i, mode |-> md, force |-> force, since |-> since]

\* What the daemon sends only to an attached client.
IfAttached(a, lines) == IF a THEN lines ELSE <<>>

----------------------------------------------------------------------------
(* The daemon *)

DaemonEvent ==
  /\ log < MaxSeq
  /\ Len(down) < MaxQueue
  /\ log' = log + 1
  /\ down' = down \o IfAttached(att, <<Event(log)>>)
  /\ UNCHANGED <<att, lease, up, chan, todo, callVars, handleVars, drops, early, orphaned>>

\* The rival attaches in write mode, by force if the lease is not free.
RivalTakes ==
  /\ lease # "rival"
  /\ Len(down) < MaxQueue
  /\ lease' = "rival"
  /\ down' = down \o IfAttached(att,
       <<Control("rival", IF lease = "free" THEN "acquired" ELSE "preempted")>>)
  /\ UNCHANGED <<log, att, up, chan, todo, callVars, handleVars, drops, early, orphaned>>

\* The rival releases or leaves, or the daemon notices that the connection
\* which held the lease is gone.
LeaseFreed ==
  /\ lease \in {"rival", "stale"}
  /\ Len(down) < MaxQueue
  /\ lease' = "free"
  /\ down' = down \o IfAttached(att,
       <<Control("none", IF lease = "rival" THEN "released" ELSE "disconnected")>>)
  /\ UNCHANGED <<log, att, up, chan, todo, callVars, handleVars, drops, early, orphaned>>

\* Mutant of Replayed: the replay stops one event short of the head.
ReplayedShort(since) ==
  LET from == IF since = -2 THEN log - 1 ELSE since IN
  [i \in 1..(log - 2 - from) |-> Event(from + i)]

\* The events after `since` that an attach sends again.
Replayed(since) ==
  LET from == IF since = -2 THEN log - 1 ELSE since IN
  [i \in 1..(log - 1 - from) |-> Event(from + i)]

\* session.attach: replay, attachment, lease, response; see SessionBroker.
ServeAttach(r) ==
  LET locked == r.mode = "write" /\ lease \notin {"free", "me"} /\ ~r.force
      taken  == r.mode = "write" /\ lease # "me" /\ ~locked
      why    == IF lease = "free" THEN "acquired" ELSE "preempted"
  IN
  /\ att' = ~locked
  /\ lease' = IF taken THEN "me" ELSE lease
  /\ down' = down \o Replayed(r.since)
                  \o (IF taken THEN <<Control("me", why)>> ELSE <<>>)
                  \o <<Result(r.id, ~locked)>>

\* session.control-release and session.detach.
ServeRelease(r) ==
  /\ att' = (att /\ r.method # "detach")
  /\ lease' = IF lease = "me" THEN "free" ELSE lease
  /\ down' = down \o IfAttached(att /\ lease = "me", <<Control("none", "released")>>)
                  \o <<Result(r.id, TRUE)>>

Serve ==
  /\ up # <<>>
  /\ IF Head(up).method = "attach" THEN ServeAttach(Head(up)) ELSE ServeRelease(Head(up))
  /\ up' = Tail(up)
  /\ UNCHANGED <<log, chan, todo, callVars, handleVars, drops, early, orphaned>>

----------------------------------------------------------------------------
(* Calls of the client.  User code runs only when no continuation is due.    *)

Live == {h \in Handles : handle[h] = "live"}

\* peer.call: h waits for the answer to request number calls + 1.
Call(h, op, m, md, force, since) ==
  /\ calls' = calls + 1
  /\ pend' = [pend EXCEPT ![h] = [id |-> calls + 1, op |-> op, mode |-> md, since |-> since]]
  /\ up' = Append(up, Request(m, calls + 1, md, force, since))

\* A call of the user goes out on a connected channel and fails at once
\* otherwise (TargetConnection.call).
UserReady(h) ==
  /\ chan = "up"
  /\ cont = <<>>
  /\ pend[h] = NoCall
  /\ calls < MaxCalls

\* RemoteClient.attach without a live handle for the session.  A user attaches
\* one call at a time: nothing in attach keeps two overlapping ones apart.
AttachCall(h, md, force) ==
  /\ UserReady(h)
  /\ handle[h] = "none"
  /\ registry \notin Live
  /\ \A g \in Handles : pend[g].op # "attach"
  /\ Call(h, "attach", "attach", md, force, -2)
  /\ UNCHANGED <<daemonVars, down, chan, todo, cont, handleVars, drops, early, orphaned>>

\* acquireWrite, from RemoteClient.attach or from the user.
AcquireWrite(h, force) ==
  /\ UserReady(h)
  /\ handle[h] = "live"
  /\ mode[h] = "read"
  /\ Call(h, "acquire", "attach", "write", force, cursor[h])
  /\ UNCHANGED <<daemonVars, down, chan, todo, cont, handleVars, drops, early, orphaned>>

ReleaseControl(h) ==
  /\ UserReady(h)
  /\ handle[h] = "live"
  /\ mode[h] = "write"
  /\ Call(h, "release", "release", "read", FALSE, -2)
  /\ UNCHANGED <<daemonVars, down, chan, todo, cont, handleVars, drops, early, orphaned>>

\* Mutant of Detach: the daemon is not told.
DetachLocally(h) ==
  /\ cont = <<>>
  /\ handle[h] = "live"
  /\ handle' = [handle EXCEPT ![h] = "detached"]
  /\ registry' = NoHandle
  /\ orphaned' = (orphaned \/ (chan = "opening" /\ h \notin todo))
  /\ UNCHANGED <<daemonVars, wireVars, chan, todo, callVars, mode, first, cursor, delivered, drops, early>>

\* Local teardown; the daemon is told on a connected channel only.  During the
\* re-attach loop it is not, and knows the handle if its turn has come.
Detach(h) ==
  /\ cont = <<>>
  /\ handle[h] = "live"
  /\ handle' = [handle EXCEPT ![h] = "detached"]
  /\ registry' = NoHandle
  /\ up' = IF chan = "up" THEN Append(up, Request("detach", 0, "read", FALSE, -2)) ELSE up
  /\ orphaned' = (orphaned \/ (chan = "opening" /\ h \notin todo))
  /\ UNCHANGED <<daemonVars, down, chan, todo, callVars, mode, first, cursor, delivered, drops, early>>

\* onReattachFailed
TornDown(hs) ==
  /\ handle' = [h \in Handles |-> IF h \in hs THEN "detached" ELSE handle[h]]
  /\ mode' = [h \in Handles |-> IF h \in hs THEN "read" ELSE mode[h]]
  /\ registry' = IF hs # {} THEN NoHandle ELSE registry

\* The deadline of a call passes: its response, if any, will be ignored, and
\* what it attached has no handle.
CallTimesOut(h) ==
  /\ cont = <<>>
  /\ pend[h] # NoCall
  /\ pend' = [pend EXCEPT ![h] = NoCall]
  /\ TornDown(IF pend[h].op \in {"reattach", "retry"} THEN {h} \intersect Live ELSE {})
  /\ orphaned' = (orphaned \/ pend[h].op \in {"attach", "reattach", "retry"})
  /\ UNCHANGED <<daemonVars, wireVars, chan, todo, calls, cont, first, cursor, delivered, drops, early>>

----------------------------------------------------------------------------
(* Lines that arrive *)

\* Mutant of Deliver: no comparison with the cursor.
DeliverAll(n) ==
  /\ cursor' = [h \in Handles |-> IF h \in Live THEN n ELSE cursor[h]]
  /\ delivered' = [h \in Handles |->
                     IF h \in Live THEN Append(delivered[h], n) ELSE delivered[h]]
  /\ UNCHANGED <<callVars, registry, handle, mode, first>>

Deliver(n) ==
  LET news == {h \in Live : n > cursor[h]} IN
  /\ cursor' = [h \in Handles |-> IF h \in news THEN n ELSE cursor[h]]
  /\ delivered' = [h \in Handles |->
                     IF h \in news THEN Append(delivered[h], n) ELSE delivered[h]]
  /\ UNCHANGED <<callVars, registry, handle, mode, first>>

\* Mutant of ModeAfter: a preemption is ignored.
ModeAfterKeeps(h, holder, why) ==
  IF mode[h] = "write" /\ holder = "none" THEN "read"
  ELSE IF mode[h] # "write" /\ holder = "me" /\ why = "acquired" THEN "write"
  ELSE mode[h]

\* handleControl on every live handle.
ModeAfter(h, holder, why) ==
  IF mode[h] = "write" /\ holder # "me" THEN "read"
  ELSE IF mode[h] # "write" /\ holder = "me" /\ why = "acquired" THEN "write"
  ELSE mode[h]

ControlChanged(holder, why) ==
  /\ mode' = [h \in Handles |-> IF h \in Live THEN ModeAfter(h, holder, why) ELSE mode[h]]
  /\ UNCHANGED <<callVars, registry, handle, first, cursor, delivered>>

\* A response settles the call it names; its continuation is queued.
Answered(r) ==
  LET whose == {h \in Handles : pend[h].id = r.id /\ pend[h] # NoCall} IN
  /\ cont' = IF whose = {} THEN cont
             ELSE LET h == CHOOSE x \in whose : TRUE IN
                  Append(cont, [h |-> h, call |-> pend[h], ok |-> r.ok, last |-> r.last])
  /\ pend' = [h \in Handles |-> IF h \in whose THEN NoCall ELSE pend[h]]
  /\ UNCHANGED <<calls, handleVars>>

\* A line is dispatched while the continuation it depends on is still queued: an
\* event before its handle is subscribed, a control change before the mode of an
\* answered call is set.
EarlyLine(line) ==
  \/ line.t = "event" /\ \E i \in DOMAIN cont : cont[i].call.op = "attach" /\ cont[i].ok
  \/ line.t = "control" /\ \E i \in DOMAIN cont : cont[i].call.op \in {"attach", "acquire"} /\ cont[i].ok

Receive ==
  /\ down # <<>>
  /\ LET line == Head(down) IN
       CASE line.t = "event"   -> Deliver(line.seq)
         [] line.t = "control" -> ControlChanged(line.holder, line.reason)
         [] line.t = "result"  -> Answered(line)
  /\ early' = IF EarlyLine(Head(down)) THEN early \union {Head(down).t} ELSE early
  /\ down' = Tail(down)
  /\ UNCHANGED <<daemonVars, up, chan, todo, drops, orphaned>>

----------------------------------------------------------------------------
(* The code after `await` *)

\* client.ts 175-189: the handle is created and subscribed.
AttachContinues(k) ==
  /\ k.call.op = "attach"
  /\ IF k.ok
     THEN /\ handle' = [handle EXCEPT ![k.h] = "live"]
          /\ mode' = [mode EXCEPT ![k.h] = k.call.mode]
          /\ first' = [first EXCEPT ![k.h] = k.last]
          /\ cursor' = [cursor EXCEPT ![k.h] = k.last]
          /\ registry' = k.h
     ELSE UNCHANGED <<handle, mode, first, cursor, registry>>
  /\ UNCHANGED <<calls, pend, up, delivered>>

AcquireContinues(k) ==
  /\ k.call.op = "acquire"
  /\ mode' = [mode EXCEPT ![k.h] = IF k.ok THEN "write" ELSE @]
  /\ UNCHANGED <<calls, pend, up, registry, handle, first, cursor, delivered>>

ReleaseContinues(k) ==
  /\ k.call.op = "release"
  /\ mode' = [mode EXCEPT ![k.h] = "read"]
  /\ UNCHANGED <<calls, pend, up, registry, handle, first, cursor, delivered>>

\* reattachAll: a refused write attach is tried again in read mode, from the
\* sinceSeq of the first try.
ReattachContinues(k) ==
  /\ k.call.op = "reattach"
  /\ IF k.ok THEN UNCHANGED <<calls, pend, up>>
             ELSE Call(k.h, "retry", "attach", "read", FALSE, k.call.since)
  /\ UNCHANGED handleVars

RetryContinues(k) ==
  /\ k.call.op = "retry"
  /\ mode' = [mode EXCEPT ![k.h] = "read"]
  /\ UNCHANGED <<calls, pend, up, registry, handle, first, cursor, delivered>>

Continue ==
  /\ cont # <<>>
  /\ \/ AttachContinues(Head(cont))
     \/ AcquireContinues(Head(cont))
     \/ ReleaseContinues(Head(cont))
     \/ ReattachContinues(Head(cont))
     \/ RetryContinues(Head(cont))
  /\ cont' = Tail(cont)
  /\ UNCHANGED <<daemonVars, down, chan, todo, drops, early, orphaned>>

----------------------------------------------------------------------------
(* The channel *)

\* The stream ends: calls reject, what was in flight is gone, and so is the
\* attachment; the daemon keeps the lease until it notices (LeaseFreed).
StreamLost ==
  /\ chan # "down"
  /\ cont = <<>>
  /\ drops < MaxDrops
  /\ drops' = drops + 1
  /\ chan' = "down"
  /\ up' = <<>>
  /\ down' = <<>>
  /\ att' = FALSE
  /\ lease' = IF lease = "me" THEN "stale" ELSE lease
  /\ todo' = {}
  /\ pend' = [h \in Handles |-> NoCall]
  /\ TornDown({h \in Live : pend[h].op \in {"reattach", "retry"}})
  /\ orphaned' = FALSE
  /\ UNCHANGED <<log, calls, cont, first, cursor, delivered, early>>

Reconnected ==
  /\ chan = "down"
  /\ chan' = "opening"
  /\ todo' = Live
  /\ UNCHANGED <<daemonVars, wireVars, callVars, handleVars, drops, early, orphaned>>

\* The re-attach loop is between two handles.
LoopIdle ==
  /\ chan = "opening"
  /\ cont = <<>>
  /\ \A h \in Handles : pend[h].op \notin {"reattach", "retry"}

\* Mutant of ReattachNext: the loop does not move on.
ReattachNextAgain(h) ==
  /\ LoopIdle
  /\ h \in todo
  /\ Call(h, "reattach", "attach", mode[h], FALSE, cursor[h])
  /\ UNCHANGED <<daemonVars, down, chan, todo, cont, handleVars, drops, early, orphaned>>

\* A handle detached before its turn is skipped.
ReattachNext(h) ==
  /\ LoopIdle
  /\ h \in todo
  /\ todo' = todo \ {h}
  /\ IF h \in Live THEN Call(h, "reattach", "attach", mode[h], FALSE, cursor[h])
                   ELSE UNCHANGED <<calls, pend, up>>
  /\ UNCHANGED <<daemonVars, down, chan, cont, handleVars, drops, early, orphaned>>

ReattachOver ==
  /\ LoopIdle
  /\ todo = {}
  /\ chan' = "up"
  /\ UNCHANGED <<daemonVars, wireVars, todo, callVars, handleVars, drops, early, orphaned>>

----------------------------------------------------------------------------

UserStep(h) ==
  \/ \E md \in {"read", "write"}, force \in BOOLEAN : AttachCall(h, md, force)
  \/ \E force \in BOOLEAN : AcquireWrite(h, force)
  \/ ReleaseControl(h)
  \/ Detach(h)
  \/ CallTimesOut(h)

Next ==
  \/ DaemonEvent
  \/ RivalTakes
  \/ LeaseFreed
  \/ Serve
  \/ \E h \in Handles : UserStep(h)
  \/ Receive
  \/ Continue
  \/ StreamLost
  \/ Reconnected
  \/ \E h \in Handles : ReattachNext(h)
  \/ ReattachOver

Spec == Init /\ [][Next]_vars

----------------------------------------------------------------------------
(* Properties *)

\* The events handed to the user of h are those after its attach, in log order.
GapFree(h) == delivered[h] = [i \in 1..(cursor[h] - first[h]) |-> first[h] + i]

\* A handle's user gets every event after the attach, once and in log order,
\* across reconnects, escalations and lost channels, unless an event shared the
\* chunk of the response to the first attach (handle.ts handleEvent;
\* client.spec.ts 492: "without gaps or dups").
NoGap == "event" \notin early => \A h \in Live : GapFree(h)

\* Nothing is on its way and no call is in progress.
Quiet ==
  /\ chan = "up" /\ up = <<>> /\ down = <<>> /\ cont = <<>>
  /\ \A h \in Handles : pend[h] = NoCall

\* When nothing is on its way, a handle whose client the daemon has attached
\* has been given the whole log, under the same condition (client.ts attach).
CaughtUp == Quiet /\ att /\ "event" \notin early => \A h \in Live : cursor[h] = log - 1

\* What the user of a handle has seen is gap-free at any moment, and everything
\* when nothing is on its way (handle.ts handleEvent, client.ts attach).
FeedInv == TypeOK /\ NoGap /\ CaughtUp

\* types.ts 166-168: the mode downgrades to read when the write lease is lost.
\* When nothing is on its way, a handle in write mode holds the lease, unless a
\* control change shared the chunk of a response (handle.ts acquireWrite).
NoStaleWrite ==
  Quiet /\ "control" \notin early => \A h \in Live : mode[h] = "write" => lease = "me"

\* When nothing is on its way, the daemon holds neither an attachment nor the
\* lease for a session without a handle, so that no other client is locked out
\* by one that has left.  Excepted is what the code leaves behind until the
\* connection ends: the attachment of a call whose deadline passed, and that of a
\* handle detached in the re-attach loop once its turn had come (handle.ts detach,
\* client.ts attach).
NoOrphan == Quiet /\ Live = {} /\ ~orphaned => ~att /\ lease # "me"

============================================================================
