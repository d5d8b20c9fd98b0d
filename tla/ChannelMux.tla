---------------------------- MODULE ChannelMux ----------------------------
(***************************************************************************)
(* The channel mux of both ends of one byte stream (remote-core/src/mux.ts *)
(* and framing.ts).  The operators take the state of one end and an input  *)
(* to its next state.  The map entries of channels that ended while a      *)
(* chunk was handled are deleted in the microtask behind the chunk.        *)
(*                                                                         *)
(* Bytes are counted in units: a line is a sequence of units whose last    *)
(* one carries the newline, so a line may be split over chunks and a chunk *)
(* may hold several lines.  A payload is one unit of the queue budget.     *)
(***************************************************************************)
EXTENDS Naturals, Sequences

CONSTANTS Ids,        \* channel ids that occur
          MaxLine,    \* LineDecoder.maxLineBytes, in units
          MaxQueued   \* maxQueuedBytes of a channel, in payloads

ASSUME MuxAssumption == Ids \subseteq Nat /\ MaxLine \in Nat \ {0} /\ MaxQueued \in Nat

Sides == {"front", "back"}
Other(s) == IF s = "front" THEN "back" ELSE "front"

(***************************************************************************)
(* Framing: lines on the wire and the incremental decoder.                 *)
(***************************************************************************)

\* A data frame is longer than the frames without payload.
Encode(line) ==
  IF line.type = "data" THEN << [line |-> line, at |-> "start"], [line |-> line, at |-> "newline"] >>
                        ELSE << [line |-> line, at |-> "newline"] >>

\* LineDecoder.push refuses a chunk of n units by the units of the unfinished
\* line plus all of the chunk, whatever the lines in it measure.
TooLong(tail, n) == tail + n > MaxLine

\* The length of the unfinished line behind unit u.
Rest(tail, u) == IF u.at = "newline" THEN 0 ELSE tail + 1

(***************************************************************************)
(* One channel endpoint (MuxChannelImpl).  got is what the reader was      *)
(* handed so far, waiting that a pull is outstanding, told how the         *)
(* iteration of the reader ended.                                          *)
(***************************************************************************)
NewChannel == [end |-> "open", queue |-> <<>>, waiting |-> FALSE, got |-> <<>>, told |-> "no"]

Finish(ch, end) ==
  IF ch.end # "open" THEN ch
  ELSE [ch EXCEPT !.end = end, !.waiting = FALSE, !.told = IF ch.waiting THEN end ELSE @]

Pull(ch) ==
  IF ch.queue # <<>> THEN [ch EXCEPT !.queue = Tail(@), !.got = Append(@, Head(ch.queue))]
  ELSE IF ch.end # "open" THEN [ch EXCEPT !.told = ch.end]
  ELSE [ch EXCEPT !.waiting = TRUE]

Overflows(ch) == ch.end = "open" /\ ~ch.waiting /\ Len(ch.queue) + 1 > MaxQueued

\* Mutant: a payload beyond the budget is dropped and the channel lives on.
DataDrops(ch, v) ==
  IF ch.end # "open" \/ Overflows(ch) THEN ch
  ELSE IF ch.waiting THEN [ch EXCEPT !.waiting = FALSE, !.got = Append(@, v)]
  ELSE [ch EXCEPT !.queue = Append(@, v)]

Data(ch, v) ==
  IF ch.end # "open" THEN ch
  ELSE IF ch.waiting THEN [ch EXCEPT !.waiting = FALSE, !.got = Append(@, v)]
  ELSE IF Overflows(ch) THEN Finish(ch, "error")
  ELSE [ch EXCEPT !.queue = Append(@, v)]

(***************************************************************************)
(* One end of the stream.  open is the key set of the map #channels; the   *)
(* records in ch outlive their entry, as the readers hold them.            *)
(***************************************************************************)
NewMux == [open |-> {}, ch |-> [i \in Ids |-> NewChannel], ended |-> FALSE]

Frame(i, type, v) == [type |-> type, id |-> i, v |-> v]

Create(m, i) == [m EXCEPT !.open = @ \cup {i}, !.ch[i] = NewChannel]

\* The microtask behind onClose.
Reap(m) == [m EXCEPT !.open = {i \in @ : m.ch[i].end = "open"}]

\* handleLine.  A channel its user does not know (no pending transfer has its
\* id) is created and closed again.
HandleOpen(m, known, i) ==
  IF i \in m.open THEN m
  ELSE IF i \in known THEN Create(m, i)
  ELSE [Create(m, i) EXCEPT !.ch[i].end = "done"]

HandleData(m, i, v) == IF i \notin m.open THEN m ELSE [m EXCEPT !.ch[i] = Data(@, v)]

HandleEnd(m, i, end) == IF i \notin m.open THEN m ELSE [m EXCEPT !.ch[i] = Finish(@, end)]

HandleLine(m, known, line) ==
  CASE line.type = "open"  -> HandleOpen(m, known, line.id)
    [] line.type = "data"  -> HandleData(m, line.id, line.v)
    [] line.type = "end"   -> HandleEnd(m, line.id, "done")
    [] line.type = "error" -> HandleEnd(m, line.id, "error")
    [] OTHER -> m         \* a line of the JSON-RPC peer

\* The frames handleLine sends meanwhile: the end of a channel nobody knows,
\* the error of one beyond its budget.
Replies(m, known, line) ==
  IF line.type = "open" /\ line.id \notin m.open \union known
  THEN {Frame(line.id, "end", <<>>)}
  ELSE IF line.type = "data" /\ line.id \in m.open /\ Overflows(m.ch[line.id])
  THEN {Frame(line.id, "error", <<>>)}
  ELSE {}

\* Mutant: the stream's end ends its channels like an end frame.
TeardownClean(m) ==
  [m EXCEPT !.ch = [i \in Ids |-> IF i \in m.open THEN Finish(@[i], "done") ELSE @[i]],
            !.open = {}, !.ended = TRUE]

\* The stream ended or could not be framed: every open channel fails.
Teardown(m) ==
  [m EXCEPT !.ch = [i \in Ids |-> IF i \in m.open THEN Finish(@[i], "error") ELSE @[i]],
            !.open = {}, !.ended = TRUE]

\* close(): an end frame and a local, clean end.
Closed(m, i) == Reap([m EXCEPT !.ch[i] = Finish(@, "done")])
=============================================================================
