-------------------------- MODULE MirrorRegistry --------------------------
(***************************************************************************)
(* The set of mirrored sessions of the proxy plugin (remote-proxy/src:     *)
(* proxy.ts, factory.ts, persistence.ts, the life of a mirror in mirror.ts)*)
(* over the handle registry of the client (remote-client/src/client.ts).   *)
(* Reconciles, agents.create, agents.resume, sessions.forkRemote, the      *)
(* disposal of an agent and of the plugin interleave at their awaits; one  *)
(* step is the code between two awaits.  Every remote call may fail.       *)
(*                                                                         *)
(* Events and history are the subject of SessionMirror, the daemon side    *)
(* that of SessionBroker; here a bootstrap is one step that may fail, and  *)
(* of the daemon only the sessions and this client's attachments are kept. *)
(***************************************************************************)
EXTENDS Naturals, Sequences, FiniteSets, SequencesExt

CONSTANTS Sessions,    \* session ids
          Reconciles,  \* reconciles that may run at the same time
          Owners,      \* calls of create, resume or forkRemote
          MaxMirrors,  \* mirrors made in a behaviour
          MaxHandles,  \* handles made in a behaviour
          MaxTurns     \* sessions ended or started by others

ASSUME RegistryAssumption ==
  /\ IsFiniteSet(Sessions) /\ Reconciles \cap Owners = {}
  /\ "proxy" \notin Reconciles \cup Owners
  /\ MaxMirrors \in Nat /\ MaxHandles \in Nat /\ MaxTurns \in Nat

Proxy == "proxy"
Flows == Reconciles \cup Owners \cup {Proxy}
Mirrors == 1..MaxMirrors
None == 0

VARIABLES
  remote,    \* per session, at the daemon: absent, active or ended
  handles,   \* client.handles: the handle of a session, or None
  handle,    \* the handles made: session, mode, detached
  mirrors,   \* proxy.mirrors: the mirror of a session, or None
  inflight,  \* proxy.inflight
  mirror,    \* the mirrors made: session, handle, state
  flow,      \* per flow: program counter and locals
  doomed,    \* what a teardown loop has still to dispose
  disposed,  \* proxy.disposed
  changed,   \* sessions-changed callbacks that did not run yet
  turns,     \* changes by others so far
  attached,  \* sessions whose events the daemon sends to this client
  refused,   \* history: a refusal dropped the attachment, and none was served since
  crossed    \* history: two calls of client.attach overlapped

linkVars == <<attached, refused, crossed>>
vars == <<remote, handles, handle, mirrors, inflight, mirror, flow, doomed, disposed, changed, turns,
          linkVars>>
clientVars == <<handles, handle>>
proxyVars == <<mirrors, inflight, mirror, doomed, disposed>>
daemonVars == <<remote, changed, turns>>

Idle == [pc |-> "idle", op |-> "none", s |-> None, h |-> None, m |-> None,
         list |-> <<>>, seen |-> {}]
Over == [Idle EXCEPT !.pc = "over"]

Init ==
  /\ remote \in [Sessions -> {"absent", "active", "ended"}]
  /\ handles = [s \in Sessions |-> None] /\ handle = <<>>
  /\ mirrors = [s \in Sessions |-> None] /\ inflight = [s \in Sessions |-> None]
  /\ mirror = <<>>
  /\ flow = [f \in Flows |-> Idle] /\ doomed = [f \in Reconciles \cup {Proxy} |-> {}]
  /\ disposed = FALSE /\ changed = 1 /\ turns = 0
  /\ attached = {} /\ refused = {} /\ crossed = {}

Active == {s \in Sessions : remote[s] = "active"}

\* The session is in the local store: entered and not yet detached.
Live(s) == \E m \in DOMAIN mirror : mirror[m].s = s /\ mirror[m].st \in {"live", "releasing"}

Registered == {<<s, mirrors[s]>> : s \in {s \in Sessions : mirrors[s] # None}}

Goto(f, pc) == flow' = [flow EXCEPT ![f].pc = pc]

(***************************************************************************)
(* RemoteClient.attach and DaemonAgentHandle.detach.                       *)
(***************************************************************************)
HasHandle(s) == handles[s] # None /\ ~handle[handles[s]].detached

\* detach(): the registry entry goes, whichever handle it names, and so does
\* the attachment at the daemon, whichever handle it serves.
DetachAll(hs) ==
  LET now == {h \in hs : ~handle[h].detached} IN
  /\ handle' = [h \in DOMAIN handle |-> [handle[h] EXCEPT !.detached = @ \/ h \in now]]
  /\ handles' = [s \in Sessions |-> IF \E h \in now : handle[h].s = s THEN None ELSE handles[s]]
  /\ attached' = attached \ {handle[h].s : h \in now}

\* session.attach at the daemon (broker.ts attach): the attachment is new or
\* replaces the one of an earlier call; a write attach that is refused the lease
\* drops it again, with what it replaced.
Serve(s)  == attached' = attached \cup {s} /\ refused' = refused \ {s} /\ UNCHANGED crossed
Refuse(s) ==
  /\ attached' = attached \ {s}
  /\ refused' = IF s \in attached THEN refused \cup {s} ELSE refused
  /\ UNCHANGED crossed

\* The call of client.attach is sent although another one is on its way.
Sends(s) ==
  /\ crossed' = IF \E f \in Flows : flow[f].pc \in {"attaching", "attached"} /\ flow[f].s = s
                THEN crossed \cup {s} ELSE crossed
  /\ UNCHANGED <<attached, refused>>

(***************************************************************************)
(* mirrorSession: the registered mirror, the one in flight, or a new one.  *)
(* After says how the caller goes on when the promise settled.             *)
(***************************************************************************)
After(f, ok, m, list) ==
  CASE f \in Reconciles -> [Idle EXCEPT !.pc = "sweep", !.list = list, !.seen = flow[f].seen]
    [] f \in Owners /\ (~ok \/ flow[f].op = "fork") -> Over
    [] OTHER -> [Idle EXCEPT !.pc = "own", !.m = m]

\* reads: the tap and the first history call need an attached handle.
NewMirror(s, h) ==
  [s |-> s, h |-> h, st |-> "boot", reads |-> h \in DOMAIN handle => ~handle[h].detached]

\* Mutant: a bootstrap in flight is not looked up.
MirrorTwice(f, s, h, list) ==
  /\ IF mirrors[s] # None
     THEN flow' = [flow EXCEPT ![f] = After(f, TRUE, mirrors[s], list)] /\ UNCHANGED <<inflight, mirror>>
     ELSE /\ Len(mirror) < MaxMirrors
          /\ mirror' = Append(mirror, NewMirror(s, h))
          /\ inflight' = [inflight EXCEPT ![s] = Len(mirror')]
          /\ flow' = [flow EXCEPT ![f].pc = "mirroring", ![f].s = None, ![f].h = h,
                                  ![f].m = Len(mirror'), ![f].list = list]
  /\ UNCHANGED mirrors

MirrorSession(f, s, h, list) ==
  LET wait(m) == flow' = [flow EXCEPT ![f].pc = "mirroring", ![f].s = None, ![f].h = h,
                                      ![f].m = m, ![f].list = list]
  IN  /\ CASE mirrors[s] # None ->
                flow' = [flow EXCEPT ![f] = After(f, TRUE, mirrors[s], list)]
                /\ UNCHANGED <<inflight, mirror>>
           [] mirrors[s] = None /\ inflight[s] # None ->
                wait(inflight[s]) /\ UNCHANGED <<inflight, mirror>>
           [] OTHER ->
                /\ Len(mirror) < MaxMirrors
                /\ mirror' = Append(mirror, NewMirror(s, h))
                /\ inflight' = [inflight EXCEPT ![s] = Len(mirror')]
                /\ wait(Len(mirror'))
      /\ UNCHANGED mirrors

Waiting(m) == {f \in Flows : flow[f].pc = "mirroring" /\ flow[f].m = m}

Settle(m, ok) ==
  /\ inflight' = [inflight EXCEPT ![mirror[m].s] = None]
  /\ flow' = [f \in Flows |->
                IF f \in Waiting(m) THEN After(f, ok, m, flow[f].list) ELSE flow[f]]

\* Publication and registration; the store refuses a second live session.
Publish(m) ==
  /\ mirror[m].st = "boot" /\ mirror[m].reads /\ ~Live(mirror[m].s)
  /\ mirror' = [mirror EXCEPT ![m].st = "live"]
  /\ mirrors' = [mirrors EXCEPT ![mirror[m].s] = m]
  /\ Settle(m, TRUE)
  /\ UNCHANGED <<clientVars, doomed, disposed, daemonVars, linkVars>>

\* The bootstrap threw.  create and resume detach their handle again.
BootFails(m) ==
  /\ mirror[m].st = "boot"
  /\ mirror' = [mirror EXCEPT ![m].st = "failed"]
  /\ Settle(m, FALSE)
  /\ DetachAll({flow[f].h : f \in {f \in Waiting(m) : flow[f].op \in {"create", "resume"}}})
  /\ UNCHANGED <<mirrors, doomed, disposed, daemonVars, refused, crossed>>

(***************************************************************************)
(* SessionMirror.dispose, to its first await, and its continuations.       *)
(***************************************************************************)
DisposeTo(m, release) ==
  IF release /\ handle[mirror[m].h].mode = "write" THEN "releasing" ELSE "unwinding"

\* releaseControl settled; a failure is logged, then the mirror is unwound.
Released(m) ==
  /\ mirror[m].st = "releasing"
  /\ mirror' = [mirror EXCEPT ![m].st = "unwinding"]
  /\ \/ UNCHANGED handle
     \/ ~handle[mirror[m].h].detached /\ handle' = [handle EXCEPT ![mirror[m].h].mode = "read"]
  /\ UNCHANGED <<handles, mirrors, inflight, flow, doomed, disposed, daemonVars, linkVars>>

\* scope.dispose settled; the handle is detached.
Unwound(m) ==
  /\ mirror[m].st = "unwinding"
  /\ mirror' = [mirror EXCEPT ![m].st = "detaching"]
  /\ DetachAll({mirror[m].h})
  /\ UNCHANGED <<mirrors, inflight, flow, doomed, disposed, daemonVars, refused, crossed>>

\* The detach call settled, or failed and was logged.
Gone(m) ==
  /\ mirror[m].st = "detaching"
  /\ mirror' = [mirror EXCEPT ![m].st = "gone"]
  /\ UNCHANGED <<clientVars, mirrors, inflight, flow, doomed, disposed, daemonVars, linkVars>>

(***************************************************************************)
(* reconcile                                                               *)
(***************************************************************************)
ReconcileStarts(r) ==
  /\ flow[r].pc = "idle" /\ changed > 0
  /\ changed' = changed - 1
  /\ flow' = IF disposed THEN flow ELSE [flow EXCEPT ![r].pc = "list"]
  /\ UNCHANGED <<remote, turns, clientVars, proxyVars, linkVars>>

\* The daemon answers session.list; the order of its list is its own.
ListServed(r) ==
  /\ flow[r].pc = "list"
  /\ \E q \in SetToSeqs(Active) :
       flow' = [flow EXCEPT ![r].pc = "sweep", ![r].list = q, ![r].seen = Active]
  /\ UNCHANGED <<clientVars, proxyVars, daemonVars, linkVars>>

ListFails(r) ==
  /\ flow[r].pc = "list" /\ flow' = [flow EXCEPT ![r] = Idle]
  /\ UNCHANGED <<clientVars, proxyVars, daemonVars, linkVars>>

\* Mutant: the entry is deleted when the mirror is gone.
TearLate(r, D, d) ==
  /\ doomed' = [doomed EXCEPT ![r] = D \ {d}]
  /\ UNCHANGED mirrors
  /\ IF mirror[d[2]].st = "live"
     THEN /\ mirror' = [mirror EXCEPT ![d[2]].st = DisposeTo(d[2], FALSE)]
          /\ flow' = [flow EXCEPT ![r].pc = "tearing", ![r].m = d[2]]
     ELSE flow' = [flow EXCEPT ![r].pc = "teardown"] /\ UNCHANGED mirror

\* One entry of the teardown loop: the registry forgets the session, then
\* the mirror is disposed without touching the lease.
TearOne(r, D, d) ==
  /\ doomed' = [doomed EXCEPT ![r] = D \ {d}]
  /\ mirrors' = [mirrors EXCEPT ![d[1]] = None]
  /\ IF mirror[d[2]].st = "live"
     THEN /\ mirror' = [mirror EXCEPT ![d[2]].st = DisposeTo(d[2], FALSE)]
          /\ flow' = [flow EXCEPT ![r].pc = "tearing", ![r].m = d[2]]
     ELSE flow' = [flow EXCEPT ![r].pc = "teardown"] /\ UNCHANGED mirror

TearSome(r, D) ==
  IF D = {} THEN /\ flow' = [flow EXCEPT ![r] = Idle]
                 /\ doomed' = [doomed EXCEPT ![r] = {}]
                 /\ UNCHANGED <<mirrors, mirror>>
            ELSE \E d \in D : TearOne(r, D, d)

\* The loop over the list goes on to the next session without a mirror; at
\* its end the teardown loop starts over a snapshot of the registry.
Sweep(r) ==
  LET list == flow[r].list
      i    == SelectInSeq(list, LAMBDA s : mirrors[s] = None /\ inflight[s] = None)
      rest == SubSeq(list, i + 1, Len(list))
  IN  /\ flow[r].pc = "sweep"
      /\ CASE i = 0 ->
                /\ TearSome(r, {d \in Registered : d[1] \notin flow[r].seen})
                /\ UNCHANGED <<inflight, linkVars>>
           [] i # 0 /\ HasHandle(list[i]) ->
                MirrorSession(r, list[i], handles[list[i]], rest) /\ UNCHANGED <<doomed, linkVars>>
           [] OTHER ->
                /\ flow' = [flow EXCEPT ![r].pc = "attaching", ![r].s = list[i], ![r].list = rest]
                /\ Sends(list[i])
                /\ UNCHANGED <<mirrors, mirror, inflight, doomed>>
      /\ UNCHANGED <<clientVars, disposed, daemonVars>>

TeardownGoesOn(r) ==
  /\ \/ flow[r].pc = "teardown"
     \/ flow[r].pc = "tearing" /\ mirror[flow[r].m].st = "gone"
  /\ TearSome(r, doomed[r])
  /\ UNCHANGED <<inflight, clientVars, disposed, daemonVars, linkVars>>

(***************************************************************************)
(* client.attach of a session without a live handle: the look-up is in the *)
(* step before, the registration in the step after the call.               *)
(***************************************************************************)
\* A cold session is resumed by the daemon.
AttachServed(f) ==
  /\ flow[f].pc = "attaching" /\ Goto(f, "attached")
  /\ remote' = [remote EXCEPT ![flow[f].s] = "active"]
  /\ Serve(flow[f].s)
  /\ UNCHANGED <<changed, turns, clientVars, proxyVars>>

ModeOf(f) == IF flow[f].op \in {"create", "resume"} THEN "write" ELSE "read"

\* The write attach is refused, or the call fails, perhaps after it was served.
AttachFails(f) ==
  /\ flow[f].pc \in {"attaching", "attached"}
  /\ flow' = [flow EXCEPT ![f] = After(f, FALSE, None, flow[f].list)]
  /\ \/ UNCHANGED linkVars
     \/ flow[f].pc = "attaching" /\ ModeOf(f) = "write" /\ Refuse(flow[f].s)
  /\ UNCHANGED <<clientVars, proxyVars, daemonVars>>

Attached(f) ==
  LET s == flow[f].s IN
  /\ flow[f].pc = "attached" /\ Len(handle) < MaxHandles
  /\ handle' = Append(handle, [s |-> s, mode |-> ModeOf(f), detached |-> FALSE])
  /\ handles' = [handles EXCEPT ![s] = Len(handle')]
  /\ MirrorSession(f, s, Len(handle'), flow[f].list)
  /\ UNCHANGED <<doomed, disposed, daemonVars, linkVars>>

\* The write attach of create and resume, from their last await on.
AttachWrite(o) ==
  LET s == flow[o].s
      h == handles[s]
  IN  CASE ~HasHandle(s) -> Goto(o, "attaching") /\ Sends(s) /\ UNCHANGED <<mirrors, inflight, mirror>>
        [] HasHandle(s) /\ handle[h].mode = "read" ->
             /\ flow' = [flow EXCEPT ![o].pc = "acquiring", ![o].h = h]
             /\ UNCHANGED <<mirrors, inflight, mirror, linkVars>>
        [] OTHER -> MirrorSession(o, s, h, <<>>) /\ UNCHANGED linkVars

\* acquireWrite settled: a session.attach of its own.
Acquired(o) ==
  /\ flow[o].pc = "acquiring"
  /\ Serve(handle[flow[o].h].s)
  /\ handle' = [handle EXCEPT ![flow[o].h].mode = "write"]
  /\ MirrorSession(o, flow[o].s, flow[o].h, <<>>)
  /\ UNCHANGED <<handles, doomed, disposed, daemonVars>>

\* A call fails, perhaps after it was served.  acquireWrite may be refused.
CallFails(o) ==
  /\ flow[o].pc \in {"creating", "created", "preparing", "listing", "acquiring", "borrowing",
                     "forking", "forked"}
  /\ flow' = [flow EXCEPT ![o] = Over]
  /\ \/ UNCHANGED linkVars
     \/ /\ flow[o].pc \in {"acquiring", "borrowing"}
        /\ Serve(handle[flow[o].h].s) \/ Refuse(handle[flow[o].h].s)
  /\ UNCHANGED <<clientVars, proxyVars, daemonVars>>

(***************************************************************************)
(* agents.create, agents.resume and sessions.forkRemote                    *)
(***************************************************************************)
Call(o, op, s, pc) == flow' = [flow EXCEPT ![o] = [Idle EXCEPT !.pc = pc, !.op = op, !.s = s]]

CreateCall(o, s) ==
  /\ flow[o].pc = "idle" /\ ~disposed /\ remote[s] = "absent"
  /\ Call(o, "create", s, "creating")
  /\ UNCHANGED <<clientVars, proxyVars, daemonVars, linkVars>>

CreateServed(o) ==
  /\ flow[o].pc = "creating" /\ remote[flow[o].s] = "absent"
  /\ remote' = [remote EXCEPT ![flow[o].s] = "active"]
  /\ Goto(o, "created")
  /\ UNCHANGED <<changed, turns, clientVars, proxyVars, linkVars>>

\* emitChanged starts a reconcile before the write attach is sent.
Created(o) ==
  /\ flow[o].pc = "created" /\ changed' = changed + 1
  /\ AttachWrite(o)
  /\ UNCHANGED <<remote, turns, clientVars, doomed, disposed>>

ResumeCall(o, s) ==
  LET h == mirror[mirrors[s]].h
      at(pc, x) == [Idle EXCEPT !.pc = pc, !.op = "resume", !.s = IF x = None THEN s ELSE None, !.h = x]
  IN  /\ flow[o].pc = "idle" /\ ~disposed /\ remote[s] # "absent"
      /\ flow' = [flow EXCEPT ![o] =
           CASE mirrors[s] = None -> IF Live(s) THEN Over ELSE at("preparing", None)
             [] mirrors[s] # None /\ handle[h].detached -> Over
             [] OTHER -> at(IF handle[h].mode = "write" THEN "borrowed" ELSE "borrowing", h)]
      /\ UNCHANGED <<clientVars, proxyVars, daemonVars, linkVars>>

\* The registered mirror is escalated in place.
Borrowed(o) ==
  /\ flow[o].pc = "borrowing" /\ Goto(o, "borrowed")
  /\ Serve(handle[flow[o].h].s)
  /\ handle' = [handle EXCEPT ![flow[o].h].mode = "write"]
  /\ UNCHANGED <<handles, proxyVars, daemonVars>>

\* readCold pages the history, then reads the list for the header.
ColdRead(o) ==
  /\ flow[o].pc = "preparing" /\ Goto(o, "listing")
  /\ UNCHANGED <<clientVars, proxyVars, daemonVars, linkVars>>

\* The unpublished session is built; the write attach follows.
Prepared(o) ==
  /\ flow[o].pc = "listing" /\ AttachWrite(o)
  /\ UNCHANGED <<clientVars, doomed, disposed, daemonVars>>

ForkCall(o, source, child) ==
  /\ flow[o].pc = "idle" /\ ~disposed /\ remote[child] = "absent"
  /\ mirrors[source] # None /\ ~handle[mirror[mirrors[source]].h].detached
  /\ Call(o, "fork", child, "forking")
  /\ UNCHANGED <<clientVars, proxyVars, daemonVars, linkVars>>

ForkServed(o) ==
  /\ flow[o].pc = "forking" /\ remote[flow[o].s] = "absent"
  /\ remote' = [remote EXCEPT ![flow[o].s] = "active"]
  /\ Goto(o, "forked")
  /\ UNCHANGED <<changed, turns, clientVars, proxyVars, linkVars>>

Forked(o) ==
  /\ flow[o].pc = "forked"
  /\ IF HasHandle(flow[o].s) THEN MirrorSession(o, flow[o].s, handles[flow[o].s], <<>>) /\ UNCHANGED linkVars
     ELSE Goto(o, "attaching") /\ Sends(flow[o].s) /\ UNCHANGED <<mirrors, inflight, mirror>>
  /\ UNCHANGED <<clientVars, doomed, disposed, daemonVars>>

\* disposeOwned: dispose, and when that settled, delete by session id.
OwnerDisposes(o) ==
  LET m == flow[o].m IN
  /\ flow[o].pc = "own"
  /\ IF mirror[m].st = "live"
     THEN /\ mirror' = [mirror EXCEPT ![m].st = DisposeTo(m, TRUE)]
          /\ Goto(o, "disposing") /\ UNCHANGED mirrors
     ELSE /\ mirrors' = [mirrors EXCEPT ![mirror[m].s] = None]
          /\ flow' = [flow EXCEPT ![o] = Over] /\ UNCHANGED mirror
  /\ UNCHANGED <<clientVars, inflight, doomed, disposed, daemonVars, linkVars>>

OwnerDisposed(o) ==
  /\ flow[o].pc = "disposing" /\ mirror[flow[o].m].st = "gone"
  /\ mirrors' = [mirrors EXCEPT ![mirror[flow[o].m].s] = None]
  /\ flow' = [flow EXCEPT ![o] = Over]
  /\ UNCHANGED <<clientVars, inflight, mirror, doomed, disposed, daemonVars, linkVars>>

\* The dispose of a resumed, registered mirror releases the lease only.
BorrowerReleases(o) ==
  /\ flow[o].pc = "borrowed" /\ flow' = [flow EXCEPT ![o] = Over]
  /\ \/ UNCHANGED handle
     \/ ~handle[flow[o].h].detached /\ handle' = [handle EXCEPT ![flow[o].h].mode = "read"]
  /\ UNCHANGED <<handles, proxyVars, daemonVars, linkVars>>

(***************************************************************************)
(* RemoteProxy.dispose: the registry is emptied, then one by one.  The     *)
(* dispose of a mirror another caller is disposing returns at once.        *)
(***************************************************************************)
ProxyNext(D) ==
  IF D = {} THEN /\ flow' = [flow EXCEPT ![Proxy] = Over] /\ doomed' = [doomed EXCEPT ![Proxy] = {}]
                 /\ UNCHANGED mirror
  ELSE \E d \in D :
         /\ doomed' = [doomed EXCEPT ![Proxy] = D \ {d}]
         /\ IF mirror[d[2]].st = "live"
            THEN /\ mirror' = [mirror EXCEPT ![d[2]].st = DisposeTo(d[2], TRUE)]
                 /\ flow' = [flow EXCEPT ![Proxy].pc = "disposing", ![Proxy].m = d[2]]
            ELSE Goto(Proxy, "disposed") /\ UNCHANGED mirror

ProxyDisposes ==
  /\ ~disposed /\ disposed' = TRUE
  /\ mirrors' = [s \in Sessions |-> None]
  /\ ProxyNext(Registered)
  /\ UNCHANGED <<clientVars, inflight, daemonVars, linkVars>>

ProxyGoesOn ==
  /\ \/ flow[Proxy].pc = "disposed"
     \/ flow[Proxy].pc = "disposing" /\ mirror[flow[Proxy].m].st = "gone"
  /\ ProxyNext(doomed[Proxy])
  /\ UNCHANGED <<clientVars, mirrors, inflight, disposed, daemonVars, linkVars>>

(***************************************************************************)
(* The daemon and its other clients.                                       *)
(***************************************************************************)
\* The end of a session is reported to the handles that are subscribed.
SessionEnds(s) ==
  /\ turns < MaxTurns /\ turns' = turns + 1
  /\ remote[s] = "active" /\ remote' = [remote EXCEPT ![s] = "ended"]
  /\ changed' = IF \E h \in DOMAIN handle : handle[h].s = s /\ ~handle[h].detached
                THEN changed + 1 ELSE changed
  /\ UNCHANGED <<clientVars, proxyVars, flow, linkVars>>

OtherStarts(s) ==
  /\ turns < MaxTurns /\ turns' = turns + 1
  /\ remote[s] # "active" /\ remote' = [remote EXCEPT ![s] = "active"]
  /\ UNCHANGED <<changed, clientVars, proxyVars, flow, linkVars>>

(***************************************************************************)
MirrorStep(m) ==
  m \in DOMAIN mirror /\ (Publish(m) \/ BootFails(m) \/ Released(m) \/ Unwound(m) \/ Gone(m))

ReconcileStep(r) == ListServed(r) \/ ListFails(r) \/ Sweep(r) \/ TeardownGoesOn(r)

AttachStep(f) == AttachServed(f) \/ AttachFails(f) \/ Attached(f)

OwnerStep(o) ==
  \/ Acquired(o) \/ CallFails(o) \/ CreateServed(o) \/ Created(o)
  \/ Borrowed(o) \/ ColdRead(o) \/ Prepared(o) \/ ForkServed(o) \/ Forked(o) \/ OwnerDisposed(o)

Next ==
  \/ \E m \in Mirrors : MirrorStep(m)
  \/ \E r \in Reconciles : ReconcileStarts(r) \/ ReconcileStep(r)
  \/ \E f \in Reconciles \cup Owners : AttachStep(f)
  \/ \E o \in Owners :
       \/ OwnerStep(o) \/ OwnerDisposes(o) \/ BorrowerReleases(o)
       \/ \E s \in Sessions : CreateCall(o, s) \/ ResumeCall(o, s)
       \/ \E s, child \in Sessions : ForkCall(o, s, child)
  \/ ProxyDisposes \/ ProxyGoesOn
  \/ \E s \in Sessions : SessionEnds(s) \/ OtherStarts(s)

Spec == Init /\ [][Next]_vars

(***************************************************************************)
(* Properties                                                              *)
(***************************************************************************)

\* proxy.ts: a registered mirror is a live one of that session, so who looks
\* a session up gets an agent that is not torn down; the exception is the
\* agent its own owner is disposing (factory.ts deletes the entry last).
RegistryTrue ==
  \A s \in Sessions : mirrors[s] # None =>
    LET m == mirrors[s] IN
    /\ mirror[m].s = s
    /\ mirror[m].st = "live" \/ \E o \in Owners : flow[o].m = m /\ flow[o].pc = "disposing"

Published(m) == mirror[m].st \notin {"boot", "failed"}

\* proxy.ts, client.ts: the first mirror of a session can be found and hears
\* the daemon for as long as it and the plugin live, whatever other reconciles,
\* calls and failed bootstraps do meanwhile: its entry is not deleted, the handle
\* it shares is not detached, and the daemon keeps the client attached.  Entries
\* are deleted and handles detached by session id, so a second mirror has no such
\* promise.  Nor does the code keep the attachment when a caller's escalation is
\* refused the lease (broker.ts 277), or when calls of client.attach overlapped:
\* the session has two handles then, and the detach of either ends it
\* (client.ts 163-165, handle.ts detach).
FirstMirrorKept ==
  \A m \in DOMAIN mirror :
    /\ mirror[m].st = "live"
    /\ \A n \in DOMAIN mirror : n < m /\ Published(n) => mirror[n].s # mirror[m].s
    => disposed \/ /\ mirrors[mirror[m].s] = m /\ ~handle[mirror[m].h].detached
                   /\ mirror[m].s \in attached \cup refused \cup crossed
=============================================================================
