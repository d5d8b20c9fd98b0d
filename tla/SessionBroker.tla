--------------------------- MODULE SessionBroker ---------------------------
(***************************************************************************)
(* SessionBroker (packages/remote-backend/src/broker.ts): the control      *)
(* plane of the daemon backend.  It keeps the authenticated connections,   *)
(* the attachments of every client (the event feed of a session), the      *)
(* write-control lease of every session and the waiting-approval flags.    *)
(*                                                                         *)
(* Every broker operation runs to completion on the JavaScript event loop  *)
(* and is therefore one action; the two that await the host in the middle  *)
(* (a prompt with image blocks, a compaction) are split at the await.      *)
(*                                                                         *)
(* The host (session store, agents, image store) is external to the        *)
(* repository; its part of the state is marked "host" below.               *)
(***************************************************************************)
EXTENDS Integers, Sequences, FiniteSets

CONSTANTS
  Clients,     \* client ids minted by the handshake, never reused
  Sessions,    \* session ids
  None,        \* "no holder"
  MaxSeq,      \* bound on the length of a session's event log
  MaxWork      \* bound on prompts and compactions suspended at once

ASSUME NoneAssumption == None \notin Clients
ASSUME MaxSeqAssumption == MaxSeq \in Nat

VARIABLES
  conn,         \* conn[c]: has c not yet connected, is it live, or gone
  attachments,  \* attachments[c]: sessions with an entry in #attachmentsByClient
  attached,     \* attached[s]: the clients in #attached
  subs,         \* subs[c][s]: live event listeners installed by attach(c, s)
  leases,       \* leases[s]: the write-control holder, or None
  waiting,      \* sessions in #waitingApproval
  saving,       \* <<c, s>>: a prompt suspended in `await saveImage`
  compacting,   \* sessions suspended in `await compactNow`
  store,        \* host: has the session been created, is it live, or disposed
  agent,        \* host: status of the session's agent, "none" when there is none
  seq,          \* host: length of the session's event log (its next seq)
  since,        \* since[c][s]: the sinceSeq of c's current attachment to s
  feed,         \* feed[c][s]: seqs of the session.event notifications sent on it
  view          \* view[c][s]: the holder c was last told (result or broadcast)

attachVars == <<attachments, attached, subs, since, feed>>
hostVars   == <<store, agent, seq>>
workVars   == <<waiting, saving, compacting>>
brokerVars == <<conn, attachVars, leases, view, workVars, hostVars>>

----------------------------------------------------------------------------
(* Types and initial state *)

Holder == Clients \union {None}

BrokerTypeOK ==
  /\ conn \in [Clients -> {"new", "live", "gone"}]
  /\ attachments \in [Clients -> SUBSET Sessions]
  /\ attached \in [Sessions -> SUBSET Clients]
  /\ subs \in [Clients -> [Sessions -> Nat]]
  /\ leases \in [Sessions -> Holder]
  /\ waiting \in SUBSET Sessions
  /\ saving \in SUBSET (Clients \X Sessions)
  /\ compacting \in SUBSET Sessions
  /\ store \in [Sessions -> {"absent", "live", "disposed"}]
  /\ agent \in [Sessions -> {"none", "idle", "running"}]
  /\ seq \in [Sessions -> 0..MaxSeq]
  /\ since \in [Clients -> [Sessions -> -1..MaxSeq]]
  /\ feed \in [Clients -> [Sessions -> Seq(0..MaxSeq)]]
  /\ view \in [Clients -> [Sessions -> Holder]]

BrokerInit ==
  /\ conn = [c \in Clients |-> "new"]
  /\ attachments = [c \in Clients |-> {}]
  /\ attached = [s \in Sessions |-> {}]
  /\ subs = [c \in Clients |-> [s \in Sessions |-> 0]]
  /\ leases = [s \in Sessions |-> None]
  /\ waiting = {}
  /\ saving = {}
  /\ compacting = {}
  /\ store \in [Sessions -> {"absent", "live"}]
  /\ agent = [s \in Sessions |-> IF store[s] = "live" THEN "idle" ELSE "none"]
  /\ seq = [s \in Sessions |-> 0]
  /\ since = [c \in Clients |-> [s \in Sessions |-> -1]]
  /\ feed = [c \in Clients |-> [s \in Sessions |-> <<>>]]
  /\ view = [c \in Clients |-> [s \in Sessions |-> None]]

----------------------------------------------------------------------------
(* Private helpers of the broker *)

\* #toAttached / attachedTo: clients attached to s whose connection is known.
AttachedTo(s) == {c \in attached[s] : conn[c] = "live"}

\* The holder's connection, when the lease names a known one (writerOf).
WriterOf(s) == {c \in Clients : leases[s] = c /\ conn[c] = "live"}

\* #broadcastControl(s, holder): everyone in `who` is told the new holder.
BroadcastControl(v, s, who, holder) ==
  [c \in Clients |-> [v[c] EXCEPT ![s] = IF c \in who THEN holder ELSE @]]

\* Mutant: `event.seq >= sinceSeq`.
ReplayInclusive(s, from) == [i \in 1..(seq[s] - from) |-> from + i - 1]

\* Events of s with seq > from, oldest first: the replay of attach().
Replay(s, from) == [i \in 1..(seq[s] - 1 - from) |-> from + i]

\* Mutant: the listener of a replaced attachment stays installed.
TrackLeaky(c, s, from) ==
  /\ subs' = [subs EXCEPT ![c][s] = @ + 1]
  /\ attachments' = [attachments EXCEPT ![c] = @ \union {s}]
  /\ attached' = [attached EXCEPT ![s] = @ \union {c}]
  /\ since' = [since EXCEPT ![c][s] = from]
  /\ feed' = [feed EXCEPT ![c][s] = Replay(s, from)]

\* #trackAttachment: installs the new listener, removes the one it replaces,
\* and registers the pair in both maps.
TrackAttachment(c, s, from) ==
  /\ subs' = [subs EXCEPT ![c][s] =
                IF s \in attachments[c] THEN (@ + 1) - 1 ELSE @ + 1]
  /\ attachments' = [attachments EXCEPT ![c] = @ \union {s}]
  /\ attached' = [attached EXCEPT ![s] = @ \union {c}]
  /\ since' = [since EXCEPT ![c][s] = from]
  /\ feed' = [feed EXCEPT ![c][s] = Replay(s, from)]

\* Mutant: unsubscribes without looking whether there is an attachment.
DropUnguarded(c, which) ==
  /\ subs' = [subs EXCEPT ![c] =
                [s \in Sessions |-> IF s \in which THEN @[s] - 1 ELSE @[s]]]
  /\ attachments' = [attachments EXCEPT ![c] = @ \ which]
  /\ attached' = [s \in Sessions |->
                    IF s \in which THEN attached[s] \ {c} ELSE attached[s]]
  /\ since' = [since EXCEPT ![c] =
                 [s \in Sessions |-> IF s \in which THEN -1 ELSE @[s]]]
  /\ feed' = [feed EXCEPT ![c] =
                 [s \in Sessions |-> IF s \in which THEN <<>> ELSE @[s]]]

\* #dropAttachment for every session of `which`: the listener goes with the
\* map entries.  The feed of a pair that is not attached is empty.
DropAttachments(c, which) ==
  LET gone == which \intersect attachments[c] IN
  /\ subs' = [subs EXCEPT ![c] =
                [s \in Sessions |-> IF s \in gone THEN @[s] - 1 ELSE @[s]]]
  /\ attachments' = [attachments EXCEPT ![c] = @ \ gone]
  /\ attached' = [s \in Sessions |->
                    IF s \in gone THEN attached[s] \ {c} ELSE attached[s]]
  /\ since' = [since EXCEPT ![c] =
                 [s \in Sessions |-> IF s \in gone THEN -1 ELSE @[s]]]
  /\ feed' = [feed EXCEPT ![c] =
                 [s \in Sessions |-> IF s \in gone THEN <<>> ELSE @[s]]]

\* #requireHolder
RequireHolder(c, s) == leases[s] = c

----------------------------------------------------------------------------
(* Connections *)

Connect(c) ==
  /\ conn[c] = "new"
  /\ conn' = [conn EXCEPT ![c] = "live"]
  /\ UNCHANGED <<attachVars, leases, view, workVars, hostVars>>

\* Mutant: the sweep over the leases stops at the first one.
DisconnectFreesOne(c) ==
  LET owned == {s \in Sessions : leases[s] = c}
      freed == IF owned = {} THEN {} ELSE {CHOOSE s \in owned : TRUE} IN
  /\ conn[c] = "live"
  /\ DropAttachments(c, Sessions)
  /\ conn' = [conn EXCEPT ![c] = "gone"]
  /\ leases' = [s \in Sessions |-> IF s \in freed THEN None ELSE leases[s]]
  /\ view' = [x \in Clients |-> [s \in Sessions |->
                IF x = c \/ (s \in freed /\ x \in AttachedTo(s)) THEN None
                ELSE view[x][s]]]
  /\ UNCHANGED <<workVars, hostVars>>

\* Drops every attachment, then the connection, then every lease c owns; each
\* freed lease is broadcast to the clients that are still attached.
Disconnect(c) ==
  LET freed == {s \in Sessions : leases[s] = c} IN
  /\ conn[c] = "live"
  /\ DropAttachments(c, Sessions)
  /\ conn' = [conn EXCEPT ![c] = "gone"]
  /\ leases' = [s \in Sessions |-> IF s \in freed THEN None ELSE leases[s]]
  /\ view' = [x \in Clients |-> [s \in Sessions |->
                CASE x = c -> None
                  [] x # c /\ s \in freed /\ x \in AttachedTo(s) -> None
                  [] OTHER -> view[x][s]]]
  /\ UNCHANGED <<workVars, hostVars>>

----------------------------------------------------------------------------
(* session.attach.  `from` is sinceSeq; a client that omits it tails from    *)
(* the head, which is what from = seq - 1 gives.                             *)

AttachReady(c, s, from) ==
  /\ conn[c] = "live"
  /\ store[s] = "live"
  /\ from \in -1..(seq[s] - 1)

AttachRead(c, s, from) ==
  /\ AttachReady(c, s, from)
  /\ TrackAttachment(c, s, from)
  /\ view' = [view EXCEPT ![c][s] = leases[s]]
  /\ UNCHANGED <<conn, leases, workVars, hostVars>>

\* Mutant: preempting the holder also removes it from the session.
AttachWriteEvicts(c, s, from, force) ==
  /\ AttachReady(c, s, from)
  /\ leases[s] # c
  /\ leases[s] = None \/ force
  /\ attached' = [attached EXCEPT ![s] = (@ \union {c}) \ {leases[s]}]
  /\ attachments' = [x \in Clients |->
       CASE x = c -> attachments[x] \union {s}
         [] x = leases[s] -> attachments[x] \ {s}
         [] OTHER -> attachments[x]]
  /\ leases' = [leases EXCEPT ![s] = c]
  /\ view' = BroadcastControl(view, s, AttachedTo(s) \union {c}, c)
  /\ UNCHANGED <<conn, subs, since, feed, workVars, hostVars>>

\* #acquireLease when the lease is free or is taken by force.  The attachment
\* is tracked first, so the new holder is among those told.
AttachWrite(c, s, from, force) ==
  /\ AttachReady(c, s, from)
  /\ leases[s] # c
  /\ leases[s] = None \/ force
  /\ TrackAttachment(c, s, from)
  /\ leases' = [leases EXCEPT ![s] = c]
  /\ view' = BroadcastControl(view, s, AttachedTo(s) \union {c}, c)
  /\ UNCHANGED <<conn, workVars, hostVars>>

\* The holder attaches in write mode again: the lease stays, nothing is told.
AttachWriteAgain(c, s, from) ==
  /\ AttachReady(c, s, from)
  /\ leases[s] = c
  /\ TrackAttachment(c, s, from)
  /\ view' = [view EXCEPT ![c][s] = c]
  /\ UNCHANGED <<conn, leases, workVars, hostVars>>

\* REMOTE_SESSION_LOCKED: the attachment just tracked is dropped, and with it
\* the one it had replaced.
AttachLocked(c, s) ==
  /\ conn[c] = "live"
  /\ store[s] = "live"
  /\ leases[s] \notin {None, c}
  /\ DropAttachments(c, {s})
  /\ view' = [view EXCEPT ![c][s] = None]
  /\ UNCHANGED <<conn, leases, workVars, hostVars>>

----------------------------------------------------------------------------
(* session.detach, session.control-release *)

\* Mutant: the lease survives its holder's detach.
DetachKeepsLease(c, s) ==
  /\ conn[c] = "live"
  /\ view' = [view EXCEPT ![c][s] = None]
  /\ DropAttachments(c, {s})
  /\ UNCHANGED <<conn, leases, workVars, hostVars>>

Detach(c, s) ==
  /\ conn[c] = "live"
  /\ leases' = [leases EXCEPT ![s] = IF @ = c THEN None ELSE @]
  /\ view' = LET told == IF leases[s] = c
                         THEN BroadcastControl(view, s, AttachedTo(s), None)
                         ELSE view
             IN [told EXCEPT ![c][s] = None]
  /\ DropAttachments(c, {s})
  /\ UNCHANGED <<conn, workVars, hostVars>>

\* Mutant: the release is not broadcast.
ControlReleaseSilent(c, s) ==
  /\ conn[c] = "live"
  /\ leases[s] = c
  /\ leases' = [leases EXCEPT ![s] = None]
  /\ UNCHANGED <<conn, view, attachVars, workVars, hostVars>>

ControlRelease(c, s) ==
  /\ conn[c] = "live"
  /\ leases[s] = c
  /\ leases' = [leases EXCEPT ![s] = None]
  /\ view' = BroadcastControl(view, s, AttachedTo(s), None)
  /\ UNCHANGED <<conn, attachVars, workVars, hostVars>>

----------------------------------------------------------------------------
(* session.prompt, cancel, fork, create, compact *)

\* agent.followup: queues a turn and wakes the agent.
Followup(s) == agent' = [agent EXCEPT ![s] = IF @ = "none" THEN @ ELSE "running"]

PromptText(c, s) ==
  /\ conn[c] = "live"
  /\ RequireHolder(c, s)
  /\ agent[s] # "none"
  /\ Followup(s)
  /\ UNCHANGED <<conn, attachVars, leases, view, workVars, store, seq>>

\* Room for one more suspended host call (a bound of the model, not of the code).
RoomForWork == Cardinality(saving) + Cardinality(compacting) < MaxWork

\* With image blocks the prompt is suspended in saveImage ...
PromptImages(c, s) ==
  /\ conn[c] = "live"
  /\ RequireHolder(c, s)
  /\ agent[s] # "none"
  /\ RoomForWork
  /\ saving' = saving \union {<<c, s>>}
  /\ UNCHANGED <<conn, attachVars, leases, view, waiting, compacting, hostVars>>

\* ... and queues the turn when the image store answers, whatever happened to
\* the lease, the connection or the agent in between.
PromptSaved(c, s) ==
  /\ <<c, s>> \in saving
  /\ saving' = saving \ {<<c, s>>}
  /\ Followup(s)
  /\ UNCHANGED <<conn, attachVars, leases, view, waiting, compacting, store, seq>>

PromptSaveFailed(c, s) ==
  /\ <<c, s>> \in saving
  /\ saving' = saving \ {<<c, s>>}
  /\ UNCHANGED <<conn, attachVars, leases, view, waiting, compacting, hostVars>>

Cancel(c, s) ==
  /\ conn[c] = "live"
  /\ RequireHolder(c, s)
  /\ agent[s] # "none"
  /\ agent' = [agent EXCEPT ![s] = "idle"]
  /\ UNCHANGED <<conn, attachVars, leases, view, workVars, store, seq>>

\* A fork copies a prefix of the log into a new session that has no agent.
Fork(c, s, child, keep) ==
  /\ conn[c] = "live"
  /\ RequireHolder(c, s)
  /\ store[s] = "live"
  /\ store[child] = "absent"
  /\ keep \in 0..seq[s]
  /\ store' = [store EXCEPT ![child] = "live"]
  /\ seq' = [seq EXCEPT ![child] = keep]
  /\ UNCHANGED <<conn, attachVars, leases, view, workVars, agent>>

Create(c, s) ==
  /\ conn[c] = "live"
  /\ store[s] = "absent"
  /\ store' = [store EXCEPT ![s] = "live"]
  /\ agent' = [agent EXCEPT ![s] = "idle"]
  /\ UNCHANGED <<conn, attachVars, leases, view, workVars, seq>>

\* Refused (REMOTE_ABORTED) unless the agent is idle and no approval waits.
Compact(c, s) ==
  /\ conn[c] = "live"
  /\ RequireHolder(c, s)
  /\ agent[s] = "idle"
  /\ s \notin waiting
  /\ RoomForWork
  /\ compacting' = compacting \union {s}
  /\ UNCHANGED <<conn, attachVars, leases, view, waiting, saving, hostVars>>

CompactDone(s) ==
  /\ s \in compacting
  /\ compacting' = compacting \ {s}
  /\ UNCHANGED <<conn, attachVars, leases, view, waiting, saving, hostVars>>

\* setWaitingApproval, called by the approval bridge.
SetWaitingApproval(s, on) ==
  waiting' = IF on THEN waiting \union {s} ELSE waiting \ {s}

----------------------------------------------------------------------------
(* The host *)

\* Mutant: a listener forwards the events of every session.
SessionEventUnfiltered(s) ==
  /\ store[s] = "live"
  /\ seq[s] < MaxSeq
  /\ seq' = [seq EXCEPT ![s] = @ + 1]
  /\ feed' = [c \in Clients |-> [r \in Sessions |->
                feed[c][r] \o [i \in 1..subs[c][r] |-> seq[s]]]]
  /\ UNCHANGED <<conn, attachments, attached, subs, since, leases, view,
                 workVars, store, agent>>

\* A session event: every listener of the session forwards it to its client.
SessionEvent(s) ==
  /\ store[s] = "live"
  /\ seq[s] < MaxSeq
  /\ seq' = [seq EXCEPT ![s] = @ + 1]
  /\ feed' = [c \in Clients |-> [feed[c] EXCEPT ![s] =
                @ \o [i \in 1..subs[c][s] |-> seq[s]]]]
  /\ UNCHANGED <<conn, attachments, attached, subs, since, leases, view,
                 workVars, store, agent>>

AgentIdle(s) ==
  /\ agent[s] = "running"
  /\ agent' = [agent EXCEPT ![s] = "idle"]
  /\ UNCHANGED <<conn, attachVars, leases, view, workVars, store, seq>>

\* The session is torn down; attachments and lease stay in the broker's maps.
SessionDisposed(s) ==
  /\ store[s] = "live"
  /\ store' = [store EXCEPT ![s] = "disposed"]
  /\ agent' = [agent EXCEPT ![s] = "none"]
  /\ UNCHANGED <<conn, attachVars, leases, view, workVars, seq>>

----------------------------------------------------------------------------
(* Specification of the broker alone.  Bridges call SetWaiting at any time.  *)

SetWaiting(s, on) ==
  /\ SetWaitingApproval(s, on)
  /\ UNCHANGED <<conn, attachVars, leases, view, saving, compacting, hostVars>>

\* A session.attach that succeeds.
AttachStep(c, s) ==
  \/ \E from \in -1..MaxSeq : AttachRead(c, s, from)
  \/ \E from \in -1..MaxSeq, force \in BOOLEAN : AttachWrite(c, s, from, force)
  \/ \E from \in -1..MaxSeq : AttachWriteAgain(c, s, from)

\* Any other request of client c about session s.
RequestStep(c, s) ==
  \/ AttachLocked(c, s)
  \/ Detach(c, s)
  \/ ControlRelease(c, s)
  \/ PromptText(c, s)
  \/ PromptImages(c, s)
  \/ Cancel(c, s)
  \/ \E child \in Sessions, keep \in 0..MaxSeq : Fork(c, s, child, keep)
  \/ Create(c, s)
  \/ Compact(c, s)

\* One completion or event of the host.
HostStep(s) ==
  \/ \E c \in Clients : PromptSaved(c, s)
  \/ \E c \in Clients : PromptSaveFailed(c, s)
  \/ CompactDone(s)
  \/ SessionEvent(s)
  \/ AgentIdle(s)
  \/ SessionDisposed(s)

BrokerNext ==
  \/ \E c \in Clients : Connect(c)
  \/ \E c \in Clients : Disconnect(c)
  \/ \E c \in Clients, s \in Sessions : AttachStep(c, s) \/ RequestStep(c, s)
  \/ \E s \in Sessions : HostStep(s)
  \/ \E s \in Sessions, on \in BOOLEAN : SetWaiting(s, on)

BrokerSpec == BrokerInit /\ [][BrokerNext]_brokerVars

\* The abstract session: members are the attached clients, the keyboard is the
\* lease, what a member has seen is its feed.
Shared == INSTANCE SharedSession
            WITH members <- attached, holder <- leases, length <- seq, seen <- feed

----------------------------------------------------------------------------
(* Properties *)

\* The three records of an attachment (the per-client map, the per-session
\* set, the installed listener) describe the same pairs, and only live
\* connections have any: broker.ts #trackAttachment, #dropAttachment.
AttachmentsAgree ==
  \A c \in Clients, s \in Sessions :
    /\ s \in attachments[c] <=> c \in attached[s]
    /\ subs[c][s] = IF s \in attachments[c] THEN 1 ELSE 0
    /\ s \in attachments[c] => conn[c] = "live"

\* Write control is never stranded: the holder of a lease is connected and
\* attached to the session (broker.ts attach, detach, disconnect).
HolderAttached ==
  \A s \in Sessions : leases[s] # None =>
    /\ leases[s] \in attached[s]
    /\ conn[leases[s]] = "live"

\* Whoever applies the attach result and every session.control-changed it is
\* sent knows the holder exactly, as long as it is attached.
ViewIsLease ==
  \A s \in Sessions : \A c \in attached[s] : view[c][s] = leases[s]

\* The feed of an attachment is the log after its sinceSeq, complete, in order
\* and without duplicates, across re-attaches (broker.ts attach, 229-266).
FeedExact ==
  \A s \in Sessions : \A c \in attached[s] : feed[c][s] = Replay(s, since[c][s])

\* A client that is preempted keeps its attachment: losing control never costs
\* it the feed (broker.ts 221: "the previous holder stays attached").
PreemptedStaysAttached ==
  [][\A s \in Sessions :
       leases[s] # None /\ leases'[s] \notin {None, leases[s]} =>
         leases[s] \in attached'[s]]_brokerVars

\* The broker implements the shared session: every step maps to one abstract
\* step or to none (INSTANCE Shared; broker.ts as a whole).
ImplementsSharedSession == Shared!SharedSpec

----------------------------------------------------------------------------
(* The inductive invariant behind the safety properties (proved in           *)
(* SessionBrokerProofs).                                                     *)

\* Nobody is attached to a session that has not been created yet.
AbsentUnjoined ==
  \A s \in Sessions : store[s] = "absent" => attached[s] = {}

\* An attachment never starts beyond the head of the log.
SinceBelowHead ==
  \A s \in Sessions : \A c \in attached[s] : since[c][s] < seq[s]

BrokerInv ==
  /\ BrokerTypeOK
  /\ AttachmentsAgree
  /\ HolderAttached
  /\ ViewIsLease
  /\ FeedExact
  /\ AbsentUnjoined
  /\ SinceBelowHead

============================================================================
