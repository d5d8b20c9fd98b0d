# dsh-remote in TLA+

dsh-remote lets a local agent application use a remote machine in two ways:

* **Daemon sessions.** A backend on the remote host (`packages/remote-backend`)
  serves agent sessions over a byte stream; a client (`packages/remote-client`)
  attaches to them, and a proxy (`packages/remote-proxy`) copies them into the
  local application.
* **Remote seams.** The local agent runs its file and process operations on the
  remote host over SSH (`packages/fs-ssh`, `packages/subprocess-ssh`).

Everything is TypeScript on an event loop. There are no threads, but every
`await` is a point where other callbacks run, the two ends of a stream are
concurrent, streams and connections end at any moment, and other clients and
other programs of the host act in between. This is what the modules model: an
action is a stretch of code between two awaits, or one remote step.

Line numbers and file names in the modules refer to `packages/*/src`.

## 1. Inventory

| Component | State | Operations | Talks to | Hard behaviour | What makes it correct |
|---|---|---|---|---|---|
| Session broker (`broker.ts`) | connections, attachments per client and per session, listeners, leases, waiting-approval flags | connect, disconnect, attach, detach, create, prompt, cancel, fork, compact, control release, list, history | clients (notifications), host sessions and agents | several clients share, preempt, leave and rejoin; awaits inside prompt and compact | one holder, who is attached; exact feeds; exact knowledge of the holder |
| Approval and question bridges (`approval.ts`, `question.ts`) | pending requests with their targets | host request, answer, disconnect, abort, dispose | broker, host | answers, preemption, disconnect and abort race; clients attach to a session with requests pending | one verdict, a live target, every target told of the end, no flag left behind, no hang |
| Backend server (`serve.ts`, `bin.ts`, `auth.ts`) | token, open challenge, failure count, client id | start, hello, proof, method table, teardown | broker, bridges, mux, monitor | proofs in flight while new hellos come, delayed failures, repeated handshakes | one client per challenge, a connection with too many failures ends, nothing is left of it |
| Host access (`config.ts`, `init.ts`, `index.ts`, `profile-boot.ts`) | configuration file | init, rotate, load; boot, adapt approvals and questions | host application, file system | crashes and concurrent runs between write and rename; lossy conversions | the configuration survives; answers arrive as given |
| Daemon channel (`connection.ts`) | current peer, shared attempt, timer, backoff, subscribers | ensureConnected, open, handshake, re-attach loop, close | transport, handles | concurrent callers, timers, drops in every await | one attempt at a time, recovery, no process left behind |
| Session handle and client (`handle.ts`, `client.ts`) | cursor, mode, detached flag, handle registry, pending prompts | attach, acquireWrite, releaseControl, detach, re-attach, callbacks | channel | a response and later lines share a chunk; calls time out | gap-free events, an honest mode |
| JSON-RPC peer (`jsonrpc.ts`) | pending calls, handlers | call, respond, notify, time out, abort, close | framing | late responses, closing with calls in flight | every call settles once |
| Line framing, channel mux (`framing.ts`, `mux.ts`) | partial line; channels with queues | push; open, data, end, error | byte stream | limits, id reuse, slow readers | the decoded lines are the encoded ones; budgets hold |
| Session mirror (`mirror.ts`, `events.ts`) | local log, buffered events, frozen flag | tap, page history, setup, publish, drain, append, dispose | handle, history RPC, session store | the remote log grows while it is copied | the local log is the remote one, event by event |
| Proxy orchestration (`proxy.ts`, `factory.ts`, `agent.ts`, `bridges.ts`, `persistence.ts`) | mirrors, in-flight bootstraps, surfaced interactions | reconcile, create, resume, fork, dispose; show and answer requests | client, mirrors, local application | overlapping reconciles and resumes; requests replayed after a drop | a mirror that is looked up is live and stays connected, here and in the daemon; each request is shown once |
| SSH file system (`fs-ssh.ts`, `mutex.ts`, `version.ts`) | promise chain per path, resolve cache | stat, read, writeText, editText | SFTP, remote shell | other writers, aborts and lost connections during the publish script | no lost update, honest reports |
| SSH subprocesses (`process.ts`, `wrapper.ts`, `output.ts`) | deferreds, pumps, status file, termination ladder | spawn, monitor, terminate, waitForExit | exec channels, remote wrapper | four signals of the end race; two streams; descendants; lost channels; probes without an answer | true outcome, complete output, nothing left running |
| Terminals, runtime (`terminal.ts`, `runtime.ts`) | output filter, operations in flight, process groups | open, write, resize, signal, terminate | exec channels | a marker cut by chunks, aborted allocation, operations that race with terminate | exact output, nothing left running |
| Hub and transports (`hub.ts`, `ssh-transport.ts`) | connections per target | connect, keep-alive, exec, close | ssh2 | sharing a connect in flight, teardown | one connection per target |
| Transfer, monitor (`transfer.ts`, `monitor.ts`) | channels, temporary files; subscriptions | upload, download; subscribe, sample | mux | uploads that end early; slow samples | a partial file never replaces the target |

`PROJECT.json` lists every component with its status and the hazards with the
line at which each of them bites.

## 2. Modules

| Module | Models | Composition |
|---|---|---|
| `SharedSession` | what the broker promises: members, one holder, exact feeds | abstract |
| `SessionBroker` | `broker.ts` and the part of `serve.ts` that calls it | implements `SharedSession` (`INSTANCE Shared`) |
| `InteractionBridge` | `approval.ts`, `question.ts`, connection teardown of `serve.ts` | extends `SessionBroker`: every broker action is also a step here |
| `TargetConnection` | `connection.ts` | stands alone |
| `HandleFeed` | `handle.ts`, `client.ts`, the line loop of `jsonrpc.ts`, with the broker reduced to one client and a rival | stands alone |
| `SessionMirror` | `mirror.ts`, `events.ts`, `broker.ts` history | uses what `HandleFeed` shows of the handle (each event once, in order) as its input |
| `SshProcess` | `process.ts`, `wrapper.ts`, decoder of `output.ts` | stands alone |
| `SshFs` | `fs-ssh.ts` mutations and reads, `mutex.ts`, `version.ts` | stands alone |
| `ChannelMux` | `framing.ts`, `mux.ts`: operators on the state of one end of a stream | used by `FileTransfer` |
| `FileTransfer` | `transfer.ts` of the backend and its calls in `serve.ts` | extends `ChannelMux`: both ends of one stream |
| `MirrorRegistry` | `proxy.ts`, `factory.ts`, the mirrors of `persistence.ts`, the handle registry of `client.ts` | a bootstrap is one step; `SessionMirror` shows what happens in it |
| `SshTerminal` | `terminal.ts`, the terminal scripts of `wrapper.ts`, the exec channel of `ssh-transport.ts` | stands alone |
| `InteractionRelay` | `bridges.ts`, the pending sets of `handle.ts`, the adapters of `index.ts` | the bridges of `InteractionBridge`, reduced to one session |
| `PairedDaemon` | `config.ts`, `init.ts`, `bin.ts`, `profile-boot.ts`, the gate of `serve.ts`, `auth.ts`, subscriptions of `monitor.ts` | stands alone |
| `*Proofs` | theorems about the module they are named after; `BrokerProofs` about `SessionBroker` and `InteractionBridge`, `ConnectionProofs` about `TargetConnection` and `SshTerminal`, `DaemonProofs` about `PairedDaemon` and `InteractionRelay`, `FileProofs` about `SshFs` and `FileTransfer` | extend it |
| `MC*` | the symmetry sets and names TLC needs | extend the module they check |

Definitions that are named as a mutant (a plausible bug in the definition next
to them) are never part of a specification; they show that a property would
notice the bug.

### SessionBroker

`attachments[c]` is the per-client map, `attached[s]` the per-session set,
`subs[c][s]` the number of listeners installed on the session for the client:
three records of one fact, kept by `#trackAttachment` and `#dropAttachment`.
`leases[s]` is the lease table, `waiting` the waiting-approval set, `seq[s]` and
`store[s]` the host's session. `view[c][s]` and `feed[c][s]` are what the client
would know from the attach result and from the notifications it was sent,
`since[c][s]` the point from which it asked. The synchronous methods are one
action each; `prompt` with images and `compact` are split at their `await`. A
client's `sinceSeq` is at most the head it was told of, because clients send
only the cursor they got from the daemon; that a client never asks for events
beyond the head is the conjunct `SinceBelowHead` of the invariant.

### InteractionBridge

A request is `new`, `pending`, `settled` (approval: the promise is resolved and
the `finally` has not run) or `done`. `targets`, `prompts`, `outcome` and
`winner` follow the code. The route is the lease holder, else all attached
clients, else, for a request without session, every connection. `FailClosed`
chooses between a denial and the host's own handlers when nobody can be asked.
An attach that is granted returns the pending requests of the session, whoever they
were routed to (`BridgeAttach`): a late attacher has them on its screen, is no target
and is not told of their end. Two history variables record what the code does not
keep apart: `replayed[c]`, what `c` was shown in this way, and `unflagged`, the
approvals whose waiting flag the `finally` of another one cleared.

### TargetConnection

Attempt `i` runs `runOpen`: `connecting`, `handshake`, `verified`, `reattach`,
`ended`. Its backend process `proc[i]` may be lost at any time and the `closed`
callback of its peer runs later. `ensureConnected`, the timer and the failure
path share `attempt`. `unsteady` is a history variable: a stream ended between
the handshake of an attempt and the end of its re-attach loop.

### HandleFeed

Two FIFO streams between one client and the daemon. `JsonRpcPeer` dispatches all
lines of a chunk in one loop, and the code after `await call()` is a microtask
that runs afterwards; so a response only queues its continuation in `cont`, and
any number of further lines may be received before it runs. `early` records when
this mattered: an event dispatched before the answered attach has subscribed its
handle, or a control change dispatched before the mode of an answered call is
set. Up to two handle objects of the session exist, since a handle that was
detached may be replaced. A call keeps the `sinceSeq` it was made with: the retry in
read mode of a refused re-attach uses that of the first try, not the present cursor.
`orphaned` is a history variable: since the connection began, the deadline of an attach or
re-attach passed, or a handle was detached in the re-attach loop after its turn had come,
so the daemon may hold an attachment for which no handle is left to send a detach.

### SessionMirror

`create()` is `paging`, `setup`, `live`; the log grows by `RemoteEvent` at any
moment, `wire` carries events and pages in one order. A lost channel rejects the
history call; the handle's events come again. `Retry` is the next reconcile
after a failed bootstrap. `raced` is a history variable: an event fell between
the tap and the newest page.

### SshProcess

The wrapper, the child (`leader`), a descendant that holds the output pipe
(`kids`), the status file and the channel are on the remote side; `run()`,
`monitor()`, the pumps, the termination ladder and two callers of `waitForExit`
(the user and the roll-back) on the local side. Deadlines may pass at any
moment. Remote steps are only fair while the connection is up.

The two streams are kept apart: stdout is a queue, because START, END and FAIL come
among its frames; of stderr the frames are counted (`errWritten`, `errEmitted`, `err`,
`errReceived`). `StatusText` is what the wrapper writes of the end of its child: a
status above 128 becomes the signal of that number, whether a signal or an exit code
made it (`fate` is `"high"`), and stays an exit where no plain signal name belongs to
it (`"odd"`); `Verdict` is what the handle makes of that text. A probe of the group
whose channel ends without an exit code, because the caller's signal closed it or the
channel broke, counts as a dead group; `blind` records that this happened to a live
one.

### SshFs

One file, known by a text and a stamp (size, mtime in seconds, mode); two texts
may have one stamp. Calls are numbered in the order of the mutex. Each call is
`stat`, `read`, `stage`, `publish`, then `after` or `unlink`; its script is a
process of its own (`check`, then `move`) that an abort or a lost connection does
not stop at once. Other programs write and remove the file at any time.

### ChannelMux and FileTransfer

`ChannelMux` has no variables: its operators map the state of one end (key set of
the channel map, channel records) and a line to the next state and to the frame that
is sent meanwhile (`Replies`). Bytes are counted in units; a data frame is two units,
so lines are cut anywhere and chunks hold parts of several lines. `FileTransfer` adds
the two directions of the stream, the `transfer.open` calls, the table of awaited
channels and one job per transfer (`stat`, `mkdir`, temporary file, reading, rename or
removal). A side reads a chunk (`ReadChunk`) and handles its units one at a time
(`HandleFragment`, `HandleRpc`, `HandleFrame`); `busy` counts those that are left, and
no other action of that side is enabled until it is 0, as the loop over the lines of a
chunk is one task. The map entries of channels that ended are deleted in the microtask
behind the chunk (`Reap`). The other side may act in between, which the code cannot
tell from acting before or after: a line that is sent is only put on the wire. The
frontend may stop, close or vanish at any moment, and the daemon may die, also in a
chunk. Removing a temporary file is taken to succeed. An upload that fails is not
reported to the client, neither in the code nor here.

### MirrorRegistry

A flow is a reconcile, an owner's call (`create`, `resume`, `forkRemote` and the
disposal of what it got) or the disposal of the plugin; its program counter names
the await it stands at. `mirrors`, `inflight` and `handles` are the maps of
`proxy.ts` and `client.ts`, keyed by session id; `mirror` and `handle` are the
objects made so far. Every remote call may fail, and other clients end and start
sessions. Of the daemon the sessions and this client's attachments are kept
(`attached`): an attach that is served makes one, the `detach` of any handle of the
session ends it, and so does an escalation that is refused the lease (`Refuse`). Two
history variables record when the code lets go of an attachment a live mirror relies
on: `refused`, the sessions with a refusal since the last attach that was served, and
`crossed`, those for which two calls of `client.attach` overlapped. The local session store is external: it refuses a second live session
of one id, as its interface says.

### SshTerminal

The remote session consists of the program and of what it started in the
background; both may end or ignore signals. `spawn` is the allocation with its
roll-back, `filter` the filter in front of the marker, `op` the foreground
operations, `close` the steps of `terminate` (drain the operations, list, TERM,
poll, KILL, look again). A `ps` that fails is read as an empty list, as in the
code, and recorded in `blind`. A lost connection does not come back, and what a
program writes after its channel closed reaches nobody. A program may write
anything, also the bytes of the marker; what the shell prints before it may end like
the beginning of the marker, but does not hold it.

### InteractionRelay

A request is routed to clients, crosses the channel, is kept in the handle's pending
set, claimed by the proxy's bridge, shown, answered, converted four times and
settled. Connections are numbered, and each has its own calls in flight (`up`): the
daemon may serve those of a lost one after, between or before those of its
successor, until it sees its end. The proxy is a new client after each reconnect, so
it is no longer a target of what was asked before, and is told of it only by the
attach answer. `given` and `verdict` are what the user gave and what the host was
told. `raced` records lines handled while the continuation of an attach was due.
The deadline of a call may pass before its response is handled. The daemon does not
hear of it (the `$/cancel` is ignored by the server), so it acts all the same: an
answer that arrives late settles the request and its response is dropped (`late`
records these); an attach that timed out (`AttachTimesOut`, `ReattachTimesOut`,
counted in `timeouts`) leaves the daemon's attachment where it is. `OptionIds` are the ids `option-0`, `option-1`, ... by which the wire names the
options of a question; they differ from each other and from the empty text. Denials
when nobody can be asked are on, as in the plugin.

### PairedDaemon

Runs of `init` share the configuration file with daemon processes. `file` is what
the running system sees, `disk` what a crash leaves; data that was not synced is
torn. A proof is the pair of token and challenge. The delay of a failed proof and
the timer that ends the connection are steps of their own, so hellos and proofs
go on meanwhile. Samples of the monitor are left out, and so are the capability bits:
they and the guards of the methods repeat one test, whether an optional service is
present, and no step changes the answer.

## 3. Runs

| Run | Instance | States | Shows |
|---|---|---|---|
| `broker` | 2 clients, 2 sessions, log up to 1 event, 1 work in progress, symmetry | 96,139 | the records of an attachment agree; the holder is attached and connected; every attached client knows the holder; every feed is the log after its cursor; the broker implements `SharedSession` |
| `bridge` | 2 clients, 1 session, 2 requests out of 2 approvals and 1 question, over the whole broker | 533,685 | a pending request has a connected target; it is on every screen that may answer, and a screen shows more only if an attach replayed it; the flag stands for an approval that waits, unless another one cleared it; one verdict; when all connections are gone everything is decided |
| `channel` | 2 handles, 3 faults, 2 attempts, backoff cap 3 | 31,765 | one attempt and one process; handles survive drops and are served again; the channel recovers or gives up; `close()` leaves no process |
| `feed` | 2 handles, log 2, 3 calls, 1 drop, 2 lines in flight, symmetry | 1,146,375 | no gap and no duplicate; caught up when quiet; write mode means lease; neither attachment nor lease without a handle |
| `mirror` | log 5, pages of 2, 1 drop, 2 bootstraps | 5,389 | the local log is a prefix of the remote one; nothing is lost; only the race freezes; the bootstrap ends |
| `process` | 1 frame of output on either stream, exit codes above 128 with and without a signal name | 1,297,977 | true outcome; complete output of both streams; roll-back and quiescence leave nothing running, but for probes without an answer; `done` and termination settle |
| `files` | 2 calls, 3 texts | 552,018 | no lost update; honest reports; a settled call is over; the chain never wedges |
| `transfer` | 1 upload, 1 download, 2 ids, files of 2 chunks, lines and reads of 2 units, budget of 1 payload | 769,632 | no partial upload is published; a clean end means all bytes in order; uploads settle and leave no temporary file |
| `registry` | 2 sessions, 2 reconciles, 1 owner, 2 mirrors, 2 handles, 1 change by others, symmetry | 5,275,154 | a registered mirror is live; the first mirror of a session stays registered, its handle is not detached, and the daemon keeps the client attached, but for refused escalations and crossed attaches |
| `terminal` | 2 operations, 2 bytes of output out of 2, 3 kinds of noise | 266,041 | output is exactly what follows the marker; a successful `terminate` leaves nothing; `terminate` settles |
| `relay` | 1 approval or 1 question of 4 shapes, 2 typed texts, 1 drop, 2 mirrors, 1 attach past its deadline, any answer past its deadline | 3,433,698 | shown once; nothing settled stays pending, but what was answered too late; the verdict is the user's answer |
| `daemon` | 2 runs of init, 1 daemon, limit of 2 failures, 3 hellos, 3 failed proofs, 1 crash | 685,616 | one client per challenge; the configuration survives; the limit closes; nothing is left |

Why the bounds are enough. Two clients are the smallest number with a rival, a
preemption and a bystander of a control change; two sessions are needed for a
disconnect that holds one lease and not the other and for a fork; the proofs of
section 5 cover every number. Two requests in `bridge` (`MaxRequests`) are two approvals
that share a flag, or an approval beside a question; one session is enough because the
bridges relate requests of one session only. In `feed` the log of two events and two lines in
flight let an event be lost and the next one move the cursor past it, and three
calls let a handle attach, escalate and be replaced. Three faults in `channel` let
an attempt fail, a stream drop and the stream of the retry drop again. In `mirror` a
log of five events with pages of two needs three pages, the last one short, with
growth between any two of them. One frame of output suffices in `process` to tell
complete from incomplete output, on whichever stream it is; two frames change no
control decision. Its child ends by itself with the two kinds of status the wrapper
has to interpret (`ChildFates`), and by signals of the termination ladder; a plain exit
code differs from `"odd"` only where a termination turns the latter into a signal, and
the proof covers all four. Three texts
in `files` are one foreign and two own ones, or the other way round; two calls are
the smallest chain. In `transfer` a budget of one payload and reads of two units
make the queue overflow, the decoder refuse a chunk, and a line be cut, while a file
of two chunks can be complete, short or empty; a second id is what an upload and a
download need at once (an id beyond `Ids` is never given out: `Reserve`). Two
reconciles and one owner in `registry` overlap on one session while another session
is touched; two mirrors are one that is replaced, or one of each session, and two
handles are one that is replaced, or the two of crossed attaches. Two operations in `terminal` let
one be in flight while another has settled, and noises that end in a part of the
marker are the ones a filter could get wrong. Requests of `relay` do not interact in
the code, so one at a time is enough; one drop leaves an old connection whose calls
are still served beside the present one, and two mirrors replay a request that was
shown. One attach past its deadline (`MaxTimeouts`) is retried beside the attachment it
left. More drops and deadlines are covered by the proof. Three proofs in `daemon` are one more
than the limit, three hellos let a challenge be replaced before and after an
accepted proof. A collision of stamps is only enumerated with the present file,
which is the only text a guard is compared with. At most one KILL is lost in
`process` (`spared`).

Deadlock checking is off: all counters are bounded, and the systems may stop (no
client, no event, a command that never ends). Liveness is stated instead.

## 4. Fairness

* `InteractionBridge`: a resolved promise reaches its `finally` (the microtask
  queue drains). Nothing is assumed of clients or of the host.
* `TargetConnection`: each await of an attempt ends, because RPC calls have a
  deadline and a failing transport rejects; timers fire; `closed` callbacks run;
  `close()` reaches its kill. Nothing is assumed of the users.
* `SessionMirror`: the history call is answered, lines are received, and the
  caller's setup returns or fails. Log growth and drops are not fair.
* `SshProcess`: while connected, the wrapper makes progress; pumps, polls, timers
  and the awaits of `run`, the ladder and the roll-back's `waitForExit` make
  progress. The child may run for ever, nobody needs to terminate it, and a
  caller may never read its pipe (then the pump stops, as in the code, until the
  output is released).
* `SshFs`: every round trip of a call ends in an answer or an error. Scripts,
  other programs and drops are not fair.
* `FileTransfer`: the daemon reads its stream and its file operations end. The
  frontend, the readers and the end of the stream are not fair.
* `SshTerminal`: the awaits of the allocation, of the operations and of
  `terminate` end (execs resolve or fail), pumps run, and a channel that is being
  closed closes. The two polling loops have a deadline, so leaving them is
  strongly fair. Processes, signals and drops are not fair.
* `PairedDaemon`: timers fire (the delay of a failed proof, the timer behind the
  limit) and the end of a stream is noticed. Frontends and `init` are not fair.

`SessionBroker`, `HandleFeed`, `MirrorRegistry` and `InteractionRelay` state no
liveness: their methods are synchronous, or their progress depends on the
network, on users or on the host application.

## 5. Proofs

Eight modules prove theorems about twelve components, each for every value of the
constants. A theorem that states a property has the same formula as the run that
checks it on a small instance. Each module gives an inductive invariant `IInv`,
checked by TLC on the run of its component before it was proved, and proves
`Init => IInv`, `IInv /\ [Next]_vars => IInv'` with a lemma per action, and from
them the theorems.

| Module | Inductive invariant | Theorems | Assumes |
|---|---|---|---|
| `BrokerProofs` | `BrokerInv` | `BrokerTypeCorrect`, `BrokerAttachmentsAgree`, `BrokerHolderAttached`, `BrokerViewIsLease`, `BrokerFeedExact`, `BrokerPreemptedStays` (taking control never costs the previous holder its attachment), `BrokerRefinesSharedSession` (`BrokerSpec => Shared!SharedSpec`) | `NoneAssumption`, `MaxSeqAssumption` |
| `BrokerProofs` | `BridgeIInv` | `BridgeSafe`, `BridgeOneVerdict`, `BridgeImplementsBroker` (`Spec => BrokerSpec`) | also `DisjointAssumption`, `NoSessionAssumption` |
| `DaemonProofs` | `DaemonInv` | `DaemonTypeCorrect`, `DaemonAdmitsOnce`, `DaemonClosedLeavesNothing`, `DaemonConfigSurvives` | `DaemonAssumption`, `MarkerAssumption` |
| | `RelayInv`, `OwnAnswers`, `CarryInv` | `RelayInvariant`, `AskedOnce`, `PendingIsTrue`, `AnswerCarried` | `RelayAssumption`, `OptionAssumption` |
| `ConnectionProofs` | `ConnInv` | `ConnOneOpen`, `ConnChannelInv` | `NoHandleAssumption`, `BoundsAssumption` |
| | `TerminalIInv` | `TerminalInvariant`, `BoundaryIsExact`, `TerminateIsHonest` | `TerminalAssumption`: what the shell prints does not hold the marker, which `terminal.ts:331` draws at random |
| `HandleFeedProofs` | `FeedIInv`, `Bases`, `ModeIInv`, `Owned` | `FeedInvariant`, `FeedSafe`, `FeedNoStaleWrite`, `FeedNoOrphan` | `FeedAssumption` |
| `SessionMirrorProofs` | `MirrorIInv` | `MirrorInvariant`, `MirrorExactHolds`, `MirrorSafe` | `MirrorAssumption` |
| `MirrorRegistryProofs` | `RegistryInv`, `LinkInv` | `RegistryTrueHolds`, `RegistryFirstKept` | `RegistryAssumption` |
| `SshProcessProofs` | `ProcessIInv`, `ErrInv` | `ProcessSafe`, `ProcessRollback`, `ProcessQuiescence` | `ProcessAssumption`, `FatesAssumption` |
| `FileProofs` | `FsInv` | `FsFilesInv`, `FsReplacesOnlySeen` | `FsAssumption` |
| | `TransferInv` | `TransferInvariant`, `UploadNeverPartial`, `CleanEndComplete` | `MuxAssumption`, `TransferAssumption` |

The assumptions say that bounds are natural numbers and that marker values
(`None`, `NoHandle`, the `"proxy"` of `MirrorRegistry`, a torn file in
`PairedDaemon`) are none of the values they are told apart from.
`RegistryAssumption` also says that there are finitely many sessions, and
`DisjointAssumption` that the host gives no id to an approval and to a question.

### The broker and its bridges

`BrokerInv` is the type invariant, `AttachmentsAgree`, `HolderAttached`,
`ViewIsLease`, `FeedExact`, `AbsentUnjoined` and `SinceBelowHead`. None of the
interesting parts is inductive alone:

* `HolderAttached` needs `AttachmentsAgree`: `disconnect` frees the leases of the
  sessions it finds in the per-client map, while holders are members of the
  per-session set.
* `ViewIsLease` needs `AttachmentsAgree`: a control change is sent to the members
  of the session, and a view exists per attachment.
* `FeedExact` needs the listener count of `AttachmentsAgree` to be one: with two
  listeners an event is sent twice, with none it is lost. It needs
  `AbsentUnjoined` because `create` and `fork` set the length of a new log, which
  would change the feeds of members, and `SinceBelowHead` because appending an
  event extends the replayed suffix only if the cursor is below the head.

The refinement maps `attached`, `leases`, `seq` and `feed` to `members`, `holder`,
`length` and `seen`, and every broker action to one abstract step or a stutter.
Every step of the bridges is a step of the broker or leaves it alone
(`BridgeIsBroker`), so all of this holds of the whole backend
(`BridgeImplementsBroker`). `BridgeIInv` adds `BridgeInv`: the targets of a request
are connected because routes are made of attachments (`BrokerInv`), and a
teardown, which removes a client from broker and bridges in one step, leaves no
request behind that waits for it. That every target is told of the end rests on
`prompts` holding a request for each of its targets while it is pending; a screen that
holds anything else holds it since an attach (`replayed`), and its client is no target,
which is why no `Dismiss` reaches it.

### The daemon: configuration and gate

`DaemonInv` adds to the type: `FilesWhole` (what is in sight or on the disk is
whole, and its `init` was past the rename; what is on the disk is never ahead of
what is in sight), `TokenPlaced` (a daemon serves the token of such an `init`),
and `ChallengesSpent` (challenges that were met differ, are not open and not in
the future). `ConfigSurvives` is an action property and follows from `FilesWhole`.

### An interaction on its way

`RelayInv` says of every line on its way to the proxy that it is true or that a later
line corrects it (`LinesTrue`), and the same of the list of an attach answer
(`ListTrue`) and of the pending sets (`PendTrue`). `Ahead` says where a request that
waits for this client is: before a `session.attach` that will list it, in such a list,
in a request line that no attach answer follows, or pending. Both need `OneAttach`: an
attach whose answer will be taken is a call, a line or a due continuation, never two of
them, so nothing overwrites a newer list; those whose deadline has passed are none of
the three, however many there are. `Begun` and `Known` deal with calls of lost connections that are still
served: what they answer was asked before the present connection existed, so the
present client is no target and need not hear of it. `Counted` and `Claimed` turn
pending into shown. Lines in the chunk of an attach answer (`raced`) are excused, as in
the properties.

`OwnAnswers` says that a response to an answer, taken or dropped, belongs to a verdict
the local user gave. So the only settled requests that stay pending for want of a
response are those this client settled itself (`late` in `PendingTrue`), and the next
answer of an attach clears them.

`CarryInv` follows the answer: every `answer` call on its way, of the present or of a
lost connection, holds the conversion of something the local user may have given for
the item that was asked (`Faithful`), and every verdict is what was given (`Carried`).
It needs `Begun` of `RelayInv`, because only a request that was already asked keeps its
item. That the conversions of a question undo each other is `AnswerArrives`: a chosen
label is sent as the id of the first option with that label, an id names one option
(`OptionAssumption`), and the one value that is no id is the typed text, unless it is
spelled like one. It holds for any number of options and of chosen labels.
`DecisionArrives` is the same for the outcomes of an approval.

### The channel of the client

`OneOpen` is about the number of running attempts and processes. `SharedAttempt`
says that the attempt callers share is the one that runs, `UpPlaced` where a
process may be alive, and `PeerCurrent` that a peer whose end nobody has noticed
is the current one; `DropRecorded` and `FailuresAreFaults` carry what the
back-off counts. `LoopCovers` is the invariant of the re-attach loop: while its
peer lives, every subscribed handle is served, still to do, or being called.

### A terminal

`TerminalIInv` has two halves. For the output, `OutputOrder` says where the marker
is: until the filter has found it, the byte retained and the bytes on the wire are
some noise, the marker, and all the program wrote (`MarkerAt`), unless the channel
was cut; afterwards the reader's bytes and those on the wire are the beginning of
the output (`Begins`). `FilterFinds` and `FilterRetains` are the two outcomes of
`push` for any chunk: either the marker is complete and the first one found is the
right one, or retaining one byte less than the marker's length is enough. `NoBoundary`
and `ClosedForReason` then show that a drained channel without boundary was cut, or
its wrapper had ended. For the termination, `OpsOver` says that no operation starts
or survives once `terminate` has drained them, and `SessionSeen` that an empty `ps`
stays true, because a session whose processes are gone cannot grow any more; it needs
`SpawnOrder`, which says that only the leader forks and that it is started once.

### A handle's feed and its mode

`FeedIInv` says, of every cursor that matters (that of a live handle, that of an
answered first attach, and that of a first attach whose response is on its way),
that the lines behind it are `Supported`: each event is at most the next one, or
follows one that is also on its way. Replays overlap what was already sent, so the
lines are not sorted; this is the weakest condition under which comparing with the
cursor drops duplicates and never skips. `Complete` says that the head of the log
is among them as long as the daemon sends. `Attaches` is needed because the cursor
of a new handle comes from a response whose line is followed by live events;
`OneLive` because a second live handle, or a second first attach, would share the
attachment; `IdsApart` because a late response must not settle a later call; `Bases`
says that a re-attach and its retry ask from a point their handle has seen;
`CallsBounded` is the type of the number of calls: a reconnect costs a re-attach
and a retry at most (`Owed`).

`ModeIInv` adds `Granted`: whatever leads to write mode (a control line, the
response of a call for write mode, its continuation, and the mode itself) is
followed by the news of the loss, if the lease was lost. Between a lost channel
and the end of the re-attach loop this is not so; `Unsettled` names exactly the
handles the loop has still to correct. Both theorems excuse lines that shared the
chunk of a response (`early`), as the properties do.

`Owned` relates the daemon's attachment to the handles. `Inherited` says that as long as
the requests on their way may leave the daemon with an attachment (`Attachable`), there
is an heir: a live handle, a first attach that no response on its way refuses, or its
granted continuation. A refused attach ends the attachment and its own claim at the same
time, and a detach is behind every attach before it. `LoopLive` says that the handle the
loop re-attaches is live, and `Fresh` that a new connection holds nothing before the
loop's call; without it a detach before the handle's turn, which is not sent, would seem to
leave something behind. Both need that there is one live handle (`OneLive`). With
`LeaseTold` (the lease is never held without attachment) it gives `FeedNoOrphan`.

### The mirror of a session

`Shape(p, n)` describes the wire: all lines but the page at position `p` are the
last events of the log; what is tapped (`Tapped`) ends where the wire begins, and
the history that is read ends at `n`, where the tapped events begin, or behind it
if an event raced with the newest page (`Joins`). Pages end where those before
begin (`Paging`), so that a page is never found out of place: phase `diverged` is
not reachable, and `failed` only through the race.

### Mirrors and handles of the proxy

`RegistryInv` consists of operators of the values it relates. `InFlight` and
`StoreKept` say that a session has at most one bootstrap in flight and that the
store refuses a second mirror as long as the first is in it; `DoomedOK` that what a
reconcile or the disposal is about to tear down was published. `BootHears` and
`FirstKept` follow the first mirror of a session: nothing but its own owner, its
deletion or the disposal of the plugin detaches its handle. `LinkInv` is about the
daemon's side: a handle that is not detached, and one that a flow has just been
granted, belong to a session that is attached, unless it is in `refused` or `crossed`.
It needs that outside `crossed` a session has one handle that is not detached, which is
the registered one, and one flow at most that is making one: the detach of another
handle would end the attachment.

### Processes and files over SSH

`ProcessIInv` counts the frames of stdout (`FramesCounted`: what the channel may lose,
END is lost with), says what each signal of an exit implies (`ExitKnown`, `EndLast`,
`StartKnown`) and that a roll-back ends quiescent or reports that it could not prove
it (`RolledBackOrQuiet`). `ErrInv` counts the frames of stderr, for which END says
nothing: a wrapper that has ended has put them all on the channel (`ErrEnds`), a channel
that nothing has cut off has lost none (`ErrKept`), and pumps that have ended have left
none there (`PumpsDone`).

`FsInv` says what each phase of a call has left on the host (`Phases`), that a text
that has left the file never comes back (`StagedFresh`), and what a script has
compared (`CheckedExpected`, `GuardHeld`, `BasisSeen`): the text whose version an
edit was computed for is the one it read, or is not in the file any more. As in the
property, versions are taken to tell texts apart (`Distinct`) where one is compared.

### Transfers over the mux

`UploadAtomic` and `CleanEndIsComplete` need to know where every chunk of a file is.
`TransferInv` says it in two halves. `LinkInv` is about the stream: `Flow` says that
what a reader has and what its queue holds is the beginning of what was sent, that the
data frames on the wire are exactly the rest, in order (`Ahead`), and that an end frame
is behind all of them; once the stream is torn down or the channel has failed, only
the first part remains. This rests on ids: one transfer per id (`OneOwner`), nothing
was ever done with ids that were not given out (`Fresh`), the open frame is the first
of its channel (`OpensFirst`) and finds its transfer awaited (`OpeningOK`), so no frame
meets a channel record of another transfer or is dropped by an end that does not know
the channel yet. `Readers` says that a reader that was told of an end has emptied its
queue. `FileInv` is about the disk: the temporary file is what the reader was handed,
but for the chunk that is being written (`ReadingOK`), and an upload that is about to
rename has all that was sent and its size. Wires are sequences of units, and the proofs
speak of positions in them: a line that is appended keeps every position
(`Longer`), a unit that is handled shifts them by one (`Shorter`), and the lemmas about
`Flow` are stated for what a step can do to a channel (a write, a close, a payload, an
end, a pull, a failure), so that a chunk needs no induction.

### Only model-checked

Every invariant and every action property that a run checks is stated by a theorem, and
so is the refinement. What remains with TLC is liveness, which needs fairness and
`ENABLED`: `DrainSettles`, `CloseLeavesNothing`, `Recovers`, `BootstrapEnds`,
`CommandSettles`, `ChainDrains`, `UploadSettles`, `TerminateSettles`, `LimitCloses`.

## 6. Where the code and its documentation disagree

Each of the first six is a counterexample of TLC to the formula given, under the
constants of the run named; the properties of that run hold and excuse exactly
this case.

* `broker.ts:277` (run `broker`, `[][\A c \in Clients, s \in Sessions :
  AttachLocked(c, s) => attached' = attached]_brokerVars`): a reader whose write
  attach is refused loses its attachment; "rolls the attachment back"
  (`broker.ts:271`) removes more than the request added.
* `broker.ts:387` (run `broker`, `[][\A c \in Clients, s \in Sessions :
  PromptSaved(c, s) => leases[s] = c]_brokerVars`): a prompt with images queues
  its turn after its author was preempted while the images were stored;
  `broker.ts:341` says "write-control holders only".
* `connection.ts:287` (run `channel`, `Dropped ~> (Live \/ GaveUp \/ disposed)`):
  a stream that ends during the re-attach loop leaves the channel `connected`
  with no peer; the timer and `ensureConnected` do nothing any more.
* `client.ts:187` (run `feed`, `\A h \in Live : GapFree(h)`): an event in the
  chunk of the attach response finds no subscriber and is never delivered;
  `client.spec.ts:492` says "without gaps or dups".
* `mirror.ts:266` (run `mirror`, `phase # "failed"`): an event between the tap and
  the newest page is both in the history and in the buffer, and freezes the
  mirror; `mirror.ts:5-6` says that "nothing is lost while history is read".
* `terminal.ts` (run `terminal`, `done = "lost" => conn = "lost"`): the signal of
  the allocation still closes the channel after the handle was published, and
  `done` rejects over a live connection while the program runs on;
  `subprocess-types.ts:222` says that "a published handle owns its later
  lifetime", and `:246` that `done` "rejects only for a live transport failure".

Met while modelling:

* `approval.ts:160`: two approvals of a session share one flag, and the first to
  settle clears it although the other is pending (`FlagTrue` excuses it:
  `unflagged`).
* `serve.ts:277`: a client that attaches later is shown the pending requests
  (`pendingInteractions`) but is not among their targets (`approval.ts:79`): its
  answer is refused, and it is not told when the request closes, so the prompt of
  a settled request stays on its screen (`PromptsReachTargets` excuses it:
  `replayed`).
* `jsonrpc.ts:138`: an answer that reaches the daemon in time and whose response is
  late is dropped at `jsonrpc.ts:278`. `handle.ts:256` and `:273` then never delete
  the entry, and the winner gets no closed line (`approval.ts:172`): the settled
  request stays pending until the next attach answer (`PendingTrue` excuses it:
  `late`). A `session.attach` that times out leaves the daemon's attachment in
  place, and lines of it go to a client without a handle (`NoOrphan` excuses it:
  `orphaned`).
* `handle.ts:200`: a control change in the chunk of an escalation's response is
  overwritten by the continuation (`NoStaleWrite` excuses it).
* `handle.ts:183`: a handle that is detached while its re-attach is in flight
  leaves an attachment on the daemon until the connection ends (`NoOrphan` excuses it:
  `orphaned`).
* `client.ts:165`: two concurrent attaches of a session create two handles. They
  share one attachment at the daemon, and the detach of either ends it, so a live
  mirror may be cut off (`FirstMirrorKept` excuses it: `crossed`).
* `factory.ts:83`: resuming a mirrored session escalates the mirror's own handle. If
  another client holds the lease, `broker.ts:277` drops the attachment of the reader:
  the mirror stays registered, its handle counts as attached, and no event arrives
  any more until the channel is reconnected or an attach is served
  (`FirstMirrorKept` excuses it: `refused`).
* A second drop during the re-attach loop tears handles down, although
  `types.ts` says that dropping the channel does not invalidate them
  (`HandlesSurvive` excuses it).
* `wrapper.ts:153`: the wrapper reports any status above 128 that has a signal name
  as that signal, so a command that exits with 137 is reported as killed although
  nobody killed it; `process.ts:472` says that a "caller-requested termination
  converts an ambiguous `128+n` exit code", and so only converts what the wrapper
  has left (`OutcomeFaithful` states what is true).
* `wrapper.ts:114`: END comes behind the frames of stdout only; if the connection is
  lost right behind it, frames of stderr are lost and the output counts as complete
  (`OutputComplete` says so: `link`).
* `process.ts:317`: a probe whose channel ends without an exit code reads as a dead
  group. When the caller's signal aborts `waitForExit` in the probe, its channel is
  closed (`ssh-transport.ts:348-366`), the code is null, and the handle of a live group
  is marked quiescent and true is returned; `subprocess-types.ts:196` says "`false`
  when the signal aborted first" (`QuiescenceProven` excuses it: `blind`).
* `wrapper.ts:26`: the START line may interleave with encoder output.
* `process.ts:443`: after a cut channel the status file is read once, possibly
  before the wrapper writes it; `done` then rejects for a command that ran.
* `process.ts:274`: `waitForExit` may return true with live descendants when the
  status file is seen before START (`QuiescenceProven` and
  `RollbackLeavesNothing` speak of started handles).
* `fs-ssh.ts:442`: the version reported for a write is read by a later stat and
  may be another program's; `fs-ssh.ts:433`: an abort during publication reports
  a failure although the text may be published; after a lost connection the
  script may publish when its call has already failed.
* `serve.ts:225`: failed proofs are never forgiven, although `serve.ts:13` speaks
  of consecutive failures; a proof is still accepted in the delay and in the
  25 ms before the connection ends. `serve.ts:239`: the client id of an earlier
  handshake of the connection stays registered. `serve.ts:512`: the broker is not
  disposed when the connection is over.
* `config.ts:74`: two runs of `init` without `--rotate-token` may both find no
  file and both succeed, although `init.ts:6` says that it refuses to clobber;
  the token printed first is then useless. The directory is not synced: after a
  crash a printed token may be the one before. A running daemon keeps the token
  it started with.
* `proxy.ts:167`: a second mirror of a session is cut off when the first is
  deleted or detached by session id; a reconcile or create that is past its check
  when the plugin is disposed leaves a mirror behind; a resume during a disposal
  may get the disposed agent.
* `bridges.ts:85`: a mirror that is wired while the channel is down never
  subscribes to questions. `handle.ts:302`: a client that is told of a request by
  its attach answer is no target and never hears of the end. Local dialogs are
  not dismissed when a request closes. `index.ts:340`: typed text that is spelled
  like an option id is read as that option; a single-select answer drops the text
  beside a choice (`bridges.ts:227`).
* `framing.ts:67`: the limit of a line counts the rest of the chunk, so a chunk of
  short lines may end the stream.
* `terminal.ts`: a `ps` that fails counts as an empty session; a kill in flight
  may still run after an abort.

## 7. Not modelled

Not modelled: the connection set-up of the hub (`hub.ts`, `hub-ssh.ts`) and of
ssh2; the runtime around subprocesses (`runtime.ts`, `environment.ts`);
`live-runtime` and the session plugins, which hold no protocol state of their
own; type-only code (`seams`, most of `protocol.ts`); the keyed hash of `auth.ts`,
which is abstracted to equality; catalogs; the samples of the monitor; text
conversion (`text.ts`); the probes for optional services and the capability bits
made of them; the frontend's copy tool; test fakes and bundles. Within
modelled components: `list` and other reads, abort signals of `jsonrpc.ts`, stdin
and the tail buffer of a subprocess, the resolve cache and directory operations
of the file system.

The type invariants of `InteractionBridge`, `TargetConnection`, `HandleFeed`,
`SessionMirror`, `SshProcess` and `SshFs` are conjuncts of the invariants their runs
check (`BridgeInv`, `ChannelInv`, `FeedInv`, `MirrorInv`, `ProcessInv`, `FilesInv`).
Those of the other modules are conjuncts of the inductive invariants of section 5.
