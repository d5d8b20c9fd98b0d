--------------------------- MODULE FileTransfer ---------------------------
(***************************************************************************)
(* Bulk file transfer over the mux (remote-backend/src/transfer.ts, wired  *)
(* in serve.ts): transfer.open reserves a channel id, the frontend opens   *)
(* that channel and the bytes flow.  An upload is collected in a temporary *)
(* file and renamed over the target when the channel ends; a download is   *)
(* streamed from the file.  All transfers are about one remote path.       *)
(*                                                                         *)
(* The frontend side of a transfer is the protocol's client and is         *)
(* modelled as an environment: it may write, stop early and close at any   *)
(* moment.  The byte stream may end at any moment for either side, and the *)
(* daemon process may die.                                                 *)
(*                                                                         *)
(* A side reads a chunk and handles its units one by one; no other code of *)
(* that side runs before the chunk is done, as the event loop has it.      *)
(***************************************************************************)
EXTENDS ChannelMux, SequencesExt

CONSTANTS Uploads, Downloads,  \* the transfers a frontend asks for
          Chunks,              \* chunks of the file an upload sends
          MaxChunk             \* units one read of the byte stream returns

Transfers == Uploads \cup Downloads

ASSUME TransferAssumption ==
  /\ Uploads \cap Downloads = {}
  /\ Chunks \in Nat \ {0} /\ MaxChunk \in Nat \ {0}

Absent == [owner |-> "absent", data |-> <<>>]
OldFile == [owner |-> "old", data |-> << <<"old", 1>> >>]

VARIABLES
  mux,      \* the two ends of the stream
  wire,     \* units on their way to each end
  tail,     \* per side: units of the unfinished line its decoder holds
  busy,     \* per side: units of the present chunk it has not handled yet
  call,     \* per transfer: state of its transfer.open call
  chan,     \* per transfer: the channel id it was given, 0 before
  opts,     \* per transfer: [size, overwrite] of the call
  pending,  \* #pending: the transfers whose channel is awaited
  next,     \* #nextChannel
  job,      \* per transfer: what the backend does for it
  part,     \* per upload: contents of the temporary file, or Absent
  sent,     \* per transfer: chunks its sender sent to the channel
  shut,     \* transfers whose channel the frontend closed itself
  source,   \* per download: what is left of the file being streamed
  target,   \* the remote file
  alive     \* the daemon process

loopVars == <<tail, busy>>
clientVars == <<call, chan, opts, sent, shut>>
jobVars == <<job, part, source, target>>
managerVars == <<pending, next>>
transferVars == <<mux, wire, loopVars, clientVars, managerVars, jobVars, alive>>

\* No chunk is being handled: timers, callbacks and continuations may run.
Idle(s) == busy[s] = 0

\* The channel of a transfer, at one side.
Ch(s, t) == mux[s].ch[chan[t]]
OpenAt(s, t) == chan[t] # 0 /\ chan[t] \in mux[s].open

TransferInit ==
  /\ mux = [s \in Sides |-> NewMux] /\ wire = [s \in Sides |-> <<>>]
  /\ tail = [s \in Sides |-> 0] /\ busy = [s \in Sides |-> 0]
  /\ call = [t \in Transfers |-> "idle"] /\ chan = [t \in Transfers |-> 0]
  /\ opts = [t \in Transfers |-> [sized |-> FALSE, overwrite |-> FALSE]]
  /\ pending = {} /\ next = 1
  /\ job = [t \in Transfers |-> "none"] /\ part = [t \in Uploads |-> Absent]
  /\ sent = [t \in Transfers |-> <<>>] /\ shut = {}
  /\ source = [t \in Downloads |-> <<>>]
  /\ target \in {Absent, OldFile} /\ alive = TRUE

\* out.send of a side: lines to a stream nobody reads any more are lost.
Sent(s, line) ==
  IF mux[Other(s)].ended THEN wire ELSE [wire EXCEPT ![Other(s)] = @ \o Encode(line)]

Send(s, line) == wire' = Sent(s, line)
RpcLine(t, v) == [type |-> "rpc", id |-> t, v |-> v]

(***************************************************************************)
(* The frontend: an environment that follows the protocol.                 *)
(***************************************************************************)
RequestOpen(t) ==
  /\ Idle("front") /\ call[t] = "idle" /\ ~mux["front"].ended
  /\ call' = [call EXCEPT ![t] = "calling"]
  /\ \E sized, overwrite \in BOOLEAN :
       /\ t \in Downloads => ~sized /\ ~overwrite
       /\ opts' = [opts EXCEPT ![t] = [sized |-> sized, overwrite |-> overwrite]]
  /\ Send("front", RpcLine(t, <<>>))
  /\ UNCHANGED <<mux, chan, sent, shut, loopVars, managerVars, jobVars, alive>>

\* openChannel with the id of the answer; it throws when the id is in use.
OpenChannel(t) ==
  /\ Idle("front") /\ call[t] = "ready" /\ ~mux["front"].ended
  /\ IF chan[t] \in mux["front"].open
     THEN call' = [call EXCEPT ![t] = "failed"] /\ UNCHANGED <<mux, wire>>
     ELSE /\ call' = [call EXCEPT ![t] = "open"]
          /\ mux' = [mux EXCEPT !["front"] = Create(@, chan[t])]
          /\ Send("front", Frame(chan[t], "open", <<>>))
  /\ UNCHANGED <<chan, opts, sent, shut, loopVars, managerVars, jobVars, alive>>

ClientWrite(t) ==
  /\ Idle("front") /\ t \in Uploads /\ call[t] = "open" /\ OpenAt("front", t)
  /\ Len(sent[t]) < Chunks
  /\ LET v == <<t, Len(sent[t]) + 1>>
     IN  sent' = [sent EXCEPT ![t] = Append(@, v)] /\ Send("front", Frame(chan[t], "data", v))
  /\ UNCHANGED <<mux, call, chan, opts, shut, loopVars, managerVars, jobVars, alive>>

\* close(), after all chunks or before.
ClientClose(t) ==
  /\ Idle("front") /\ call[t] = "open" /\ OpenAt("front", t)
  /\ shut' = shut \cup {t}
  /\ mux' = [mux EXCEPT !["front"] = Closed(@, chan[t])]
  /\ Send("front", Frame(chan[t], "end", <<>>))
  /\ UNCHANGED <<call, chan, opts, sent, loopVars, managerVars, jobVars, alive>>

ClientPull(t) ==
  /\ Idle("front") /\ t \in Downloads /\ call[t] = "open"
  /\ ~Ch("front", t).waiting /\ Ch("front", t).told = "no"
  /\ mux' = [mux EXCEPT !["front"].ch[chan[t]] = Pull(@)]
  /\ UNCHANGED <<wire, clientVars, loopVars, managerVars, jobVars, alive>>

(***************************************************************************)
(* The pumps: fanout hands each chunk to the JSON-RPC peer and to the mux. *)
(***************************************************************************)
ReadChunk(s) ==
  /\ Idle(s) /\ ~mux[s].ended
  /\ \E n \in 1..MaxChunk :
       /\ n <= Len(wire[s]) /\ ~TooLong(tail[s], n)
       /\ busy' = [busy EXCEPT ![s] = n]
  /\ UNCHANGED <<mux, wire, tail, clientVars, managerVars, jobVars, alive>>

\* The next unit of the chunk.
InChunk(s) == busy[s] > 0 /\ wire[s] # <<>>
Unit(s) == Head(wire[s])

\* It is handled, which leaves the mux at m; the last unit of the chunk is
\* followed by the microtasks.
Handled(s, m) ==
  /\ busy' = [busy EXCEPT ![s] = @ - 1]
  /\ tail' = [tail EXCEPT ![s] = Rest(@, Unit(s))]
  /\ mux' = [mux EXCEPT ![s] = IF busy[s] = 1 THEN Reap(m) ELSE m]

HandleFragment(s) ==
  /\ InChunk(s) /\ Unit(s).at # "newline"
  /\ Handled(s, mux[s])
  /\ wire' = [wire EXCEPT ![s] = Tail(@)]
  /\ UNCHANGED <<clientVars, managerVars, jobVars, alive>>

\* A call of transfer.open at the daemon; its answer, a channel id or nothing
\* for a refusal, at the frontend.
HandleRpc(s) ==
  /\ InChunk(s) /\ Unit(s).at = "newline" /\ Unit(s).line.type = "rpc"
  /\ Handled(s, mux[s])
  /\ wire' = [wire EXCEPT ![s] = Tail(@)]
  /\ call' = [call EXCEPT ![Unit(s).line.id] =
                 IF s = "back" THEN "stat" ELSE IF Unit(s).line.v = <<>> THEN "failed" ELSE "ready"]
  /\ UNCHANGED <<chan, opts, sent, shut, managerVars, jobVars, alive>>

\* Job of a channel that handleChannel accepted.
Started(t) == IF t \in Uploads THEN "creating" ELSE "opening"

\* The channels a side's onChannel handler accepts: the frontend has none.
Known(s) == IF s = "back" THEN {chan[t] : t \in pending} ELSE {}

HandleFrame(s) ==
  LET line == Unit(s).line
      go   == {t \in pending : /\ s = "back" /\ line.type = "open"
                               /\ chan[t] = line.id /\ line.id \notin mux[s].open}
      replies == Replies(mux[s], Known(s), line)
  IN  /\ InChunk(s) /\ Unit(s).at = "newline" /\ line.type # "rpc"
      /\ Handled(s, HandleLine(mux[s], Known(s), line))
      /\ \/ replies = {} /\ wire' = [wire EXCEPT ![s] = Tail(@)]
         \/ \E reply \in replies : wire' = [Sent(s, reply) EXCEPT ![s] = Tail(@)]
      /\ pending' = pending \ go
      /\ job' = [t \in Transfers |-> IF t \in go THEN Started(t) ELSE job[t]]
      /\ UNCHANGED <<clientVars, next, part, source, target, alive>>

Pump(s) == ReadChunk(s) \/ HandleFragment(s) \/ HandleRpc(s) \/ HandleFrame(s)

\* The stream of one side ends, or a chunk is refused by the decoder.
StreamEnds(s) ==
  /\ Idle(s) /\ ~mux[s].ended
  /\ mux' = [mux EXCEPT ![s] = Teardown(@)]
  /\ wire' = [wire EXCEPT ![s] = <<>>]
  /\ UNCHANGED <<loopVars, clientVars, managerVars, jobVars, alive>>

FramingFails(s) ==
  /\ \E n \in 1..MaxChunk : n <= Len(wire[s]) /\ TooLong(tail[s], n)
  /\ StreamEnds(s)

\* What is in memory is gone; the files stay.
DaemonDies ==
  /\ alive /\ alive' = FALSE
  /\ mux' = [mux EXCEPT !["back"] = Teardown(NewMux)]
  /\ wire' = [wire EXCEPT !["back"] = <<>>]
  /\ tail' = [tail EXCEPT !["back"] = 0] /\ busy' = [busy EXCEPT !["back"] = 0]
  /\ pending' = {} /\ job' = [t \in Transfers |-> "none"]
  /\ source' = [t \in Downloads |-> <<>>]
  /\ UNCHANGED <<clientVars, next, part, target>>

(***************************************************************************)
(* TransferManager.open: one step per await.                               *)
(***************************************************************************)
Refuse(t) ==
  /\ call' = [call EXCEPT ![t] = "answered"] /\ Send("back", RpcLine(t, <<>>))
  /\ UNCHANGED <<chan, pending, next>>

\* Mutant: the id is not counted on.
ReserveSame(t) ==
  /\ next \in Ids
  /\ chan' = [chan EXCEPT ![t] = next] /\ UNCHANGED next
  /\ pending' = pending \cup {t}
  /\ call' = [call EXCEPT ![t] = "answered"] /\ Send("back", RpcLine(t, <<next>>))

Reserve(t) ==
  /\ next \in Ids
  /\ chan' = [chan EXCEPT ![t] = next] /\ next' = next + 1
  /\ pending' = pending \cup {t}
  /\ call' = [call EXCEPT ![t] = "answered"] /\ Send("back", RpcLine(t, <<next>>))

OpenStat(t) ==
  /\ alive /\ Idle("back") /\ call[t] = "stat"
  /\ LET refused == IF t \in Downloads THEN target = Absent ELSE target # Absent /\ ~opts[t].overwrite
     IN  CASE refused -> Refuse(t)
           [] ~refused /\ t \in Downloads -> Reserve(t)
           [] OTHER -> call' = [call EXCEPT ![t] = "mkdir"] /\ UNCHANGED <<wire, chan, pending, next>>
  /\ UNCHANGED <<mux, loopVars, opts, sent, shut, jobVars, alive>>

OpenMkdir(t) ==
  /\ alive /\ Idle("back") /\ call[t] = "mkdir"
  /\ Reserve(t)
  /\ UNCHANGED <<mux, loopVars, opts, sent, shut, jobVars, alive>>

(***************************************************************************)
(* runUpload: a temporary file, the chunks of the channel, a rename.       *)
(***************************************************************************)
Step(t, from, to) == alive /\ Idle("back") /\ job[t] = from /\ job' = [job EXCEPT ![t] = to]

BackPulls(t) == mux' = [mux EXCEPT !["back"].ch[chan[t]] = Pull(@)]

CreateTmp(t) ==
  \/ /\ Step(t, "creating", "reading") /\ part' = [part EXCEPT ![t] = [owner |-> t, data |-> <<>>]]
     /\ BackPulls(t)
     /\ UNCHANGED <<wire, loopVars, clientVars, managerVars, source, target, alive>>
  \/ /\ Step(t, "creating", "removing")
     /\ UNCHANGED <<mux, wire, loopVars, clientVars, managerVars, part, source, target, alive>>

\* The reader has a chunk that is not in the file yet.
WriteChunk(t) ==
  /\ job[t] = "reading" /\ Len(Ch("back", t).got) > Len(part[t].data)
  /\ \/ /\ Step(t, "reading", "reading")
        /\ part' = [part EXCEPT ![t].data = Append(@, Last(Ch("back", t).got))]
        /\ BackPulls(t)
     \/ Step(t, "reading", "removing") /\ UNCHANGED <<mux, part>>
  /\ UNCHANGED <<wire, loopVars, clientVars, managerVars, source, target, alive>>

\* Mutant: the declared size is not compared.
SizeIgnored(t) == TRUE

SizeFits(t) == opts[t].sized => Len(part[t].data) = Chunks

\* The iteration ends: sync, close, and the comparison with the size.
EndUpload(t) ==
  /\ job[t] = "reading" /\ Ch("back", t).told # "no"
  /\ Len(Ch("back", t).got) = Len(part[t].data)
  /\ Step(t, "reading", IF Ch("back", t).told = "done" /\ SizeFits(t) THEN "renaming" ELSE "removing")
  /\ UNCHANGED <<mux, wire, loopVars, clientVars, managerVars, part, source, target, alive>>

RenameTmp(t) ==
  \/ /\ Step(t, "renaming", "done")
     /\ target' = part[t] /\ part' = [part EXCEPT ![t] = Absent]
     /\ UNCHANGED <<mux, wire, loopVars, clientVars, managerVars, source, alive>>
  \/ /\ Step(t, "renaming", "removing")
     /\ UNCHANGED <<mux, wire, loopVars, clientVars, managerVars, part, source, target, alive>>

\* Mutant: the failed upload forgets its temporary file.
RemoveNothing(t) ==
  /\ Step(t, "removing", "failed")
  /\ UNCHANGED <<mux, wire, loopVars, clientVars, managerVars, part, source, target, alive>>

RemoveTmp(t) ==
  /\ Step(t, "removing", "failed")
  /\ part' = [part EXCEPT ![t] = Absent]
  /\ UNCHANGED <<mux, wire, loopVars, clientVars, managerVars, source, target, alive>>

(***************************************************************************)
(* runDownload: the opened file is streamed; a failure, of the file or of  *)
(* the channel, ends it, and the channel is closed either way.             *)
(***************************************************************************)
OpenSource(t) ==
  /\ Step(t, "opening", "sending") /\ source' = [source EXCEPT ![t] = target.data]
  /\ UNCHANGED <<mux, wire, loopVars, clientVars, managerVars, part, target, alive>>

SendChunk(t) ==
  /\ t \in Downloads /\ OpenAt("back", t) /\ source[t] # <<>>
  /\ Step(t, "sending", "sending")
  /\ source' = [source EXCEPT ![t] = Tail(@)]
  /\ sent' = [sent EXCEPT ![t] = Append(@, Head(source[t]))]
  /\ Send("back", Frame(chan[t], "data", Head(source[t])))
  /\ UNCHANGED <<mux, loopVars, call, chan, opts, shut, managerVars, part, target, alive>>

\* The end of the file, a failed read, or a write to a closed channel.
EndDownload(t) ==
  /\ t \in Downloads /\ Step(t, "sending", "done")
  /\ IF OpenAt("back", t)
     THEN /\ mux' = [mux EXCEPT !["back"] = Closed(@, chan[t])]
          /\ Send("back", Frame(chan[t], "end", <<>>))
     ELSE UNCHANGED <<mux, wire>>
  /\ UNCHANGED <<loopVars, clientVars, managerVars, part, source, target, alive>>

(***************************************************************************)
JobStep(t) ==
  \/ CreateTmp(t) \/ WriteChunk(t) \/ EndUpload(t) \/ RenameTmp(t) \/ RemoveTmp(t)
  \/ OpenSource(t) \/ SendChunk(t) \/ EndDownload(t)

TransferNext ==
  \/ \E t \in Transfers :
       \/ RequestOpen(t) \/ OpenChannel(t) \/ ClientWrite(t) \/ ClientClose(t) \/ ClientPull(t)
       \/ OpenStat(t) \/ OpenMkdir(t) \/ JobStep(t)
  \/ \E s \in Sides : Pump(s) \/ StreamEnds(s) \/ FramingFails(s)
  \/ DaemonDies

TransferFairness ==
  /\ WF_transferVars(Pump("back") \/ FramingFails("back"))
  /\ \A t \in Transfers : WF_transferVars(JobStep(t))

TransferSpec == TransferInit /\ [][TransferNext]_transferVars /\ TransferFairness

(***************************************************************************)
(* Properties                                                              *)
(***************************************************************************)

\* transfer.ts: a partial upload never takes the place of the target.  What
\* an upload published is all its client sent before it closed the channel
\* itself, and exactly the declared size if there was one; until then the
\* file is the one that was there.
UploadAtomic ==
  target \in {Absent, OldFile} \/
  \E t \in Uploads :
    /\ target = [owner |-> t, data |-> sent[t]] /\ t \in shut
    /\ opts[t].sized => Len(sent[t]) = Chunks

\* mux.ts: a reader sees what was written, in order, and its iteration ends
\* cleanly by a frame of the other side only when it has seen all of it;
\* no lost chunk, no chunk of another transfer, whatever the budget, the
\* decoder and the end of the stream do.
CleanEndIsComplete ==
  \A t \in Transfers : chan[t] # 0 =>
    LET r == Ch(IF t \in Uploads THEN "back" ELSE "front", t) IN
    /\ IsPrefix(r.got \o r.queue, sent[t])
    /\ r.told = "done" /\ ~(t \in Downloads /\ t \in shut) => r.got = sent[t]

\* transfer.ts: once its channel or its stream has ended, an upload settles
\* and its temporary file is gone, unless the daemon itself is.
UploadSettles ==
  \A t \in Uploads :
    (job[t] # "none" /\ (t \in shut \/ mux["back"].ended))
      ~> (~alive \/ (job[t] \in {"done", "failed"} /\ part[t] = Absent))
=============================================================================
