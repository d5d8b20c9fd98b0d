-------------------------- MODULE InteractionRelay --------------------------
(***************************************************************************)
(* An approval or a question of the remote host on its way to the local    *)
(* user and back: the adapters of the backend plugin (packages/            *)
(* remote-backend/src/index.ts), the pending sets of a session handle      *)
(* (remote-client/src/handle.ts) and the bridges of the proxy              *)
(* (remote-proxy/src/bridges.ts), over a channel that drops.               *)
(*                                                                         *)
(* The bridges of the daemon are those of InteractionBridge, reduced to    *)
(* one session, the connections 0..MaxDrops of one proxy and a rival       *)
(* client that stays attached.  A reconnected proxy is a new client id, so *)
(* it is no longer a target of what its lost connection was asked.  As in  *)
(* HandleFeed, code after `await call()` runs only after the rest of the   *)
(* chunk of the response: `got` holds the answer of session.attach until   *)
(* then.                                                                   *)
(***************************************************************************)
EXTENDS Integers, Sequences, FiniteSets, SequencesExt

CONSTANTS
  Approvals,   \* ids of approval requests
  Questions,   \* ids of questions
  Shapes,      \* question items: [opts |-> labels, multi |-> multiSelect]
  Customs,     \* what a user may type instead of choosing an option
  OptionIds,   \* the ids "option-0", "option-1", ... the options of a question get
  MaxAsked,    \* bound on the requests the host makes
  MaxDrops,    \* bound on lost connections
  MaxWirings,  \* bound on mirrors of the session, one after the other
  MaxTimeouts  \* bound on session.attach calls whose deadline passes

Requests == Approvals \union Questions
Rival    == -1
NoOne    == -2
Ids      == Rival..MaxDrops
Connections == 0..MaxDrops
NoText   == "(absent)"
NoShape  == [opts |-> <<>>, multi |-> FALSE]

ASSUME RelayAssumption ==
  /\ Approvals \intersect Questions = {}
  /\ MaxAsked \in Nat /\ MaxDrops \in Nat /\ MaxWirings \in Nat
  /\ MaxTimeouts \in Nat
  /\ NoText \notin Customs

\* Option ids differ from each other and from the empty text, and there is one
\* for every option.
ASSUME OptionAssumption ==
  /\ OptionIds \in Seq(STRING)
  /\ \A i, j \in DOMAIN OptionIds : OptionIds[i] = OptionIds[j] => i = j
  /\ \A i \in DOMAIN OptionIds : OptionIds[i] # ""
  /\ \A item \in Shapes : /\ item.opts \in Seq(STRING) /\ item.multi \in BOOLEAN
                          /\ Len(item.opts) <= Len(OptionIds)

VARIABLES
  phase,     \* phase[r]: "new", "pending" or "settled"
  shape,     \* shape[r]: the item of question r
  targets,   \* targets[r]: clients that may answer
  verdict,   \* verdict[r]: <<what the caller in the host was told>>
  given,     \* given[r]: history, <<what the local user gave>> if that settled r
  serving,   \* connections the daemon has not seen end
  attached,  \* clients attached to the session
  up,        \* up[c]: calls of connection c on their way to the daemon
  down,      \* lines on their way to the present connection
  gen,       \* client id of the present connection
  link,      \* "down", "reattach" (runOpen re-attaches) or "up"
  got,       \* pendingInteractions of an answered attach whose continuation is due
  handle,    \* "none", "asked", "live" or "detached"
  pend,      \* pendingApprovals and pendingQuestions
  wired,     \* kinds the proxy subscribed to
  surfaced,  \* interactions claimed in this wiring
  open,      \* open[r]: local dialogs not yet answered
  shown,     \* shown[r]: times r was dispatched in this wiring
  wirings,   \* mirrors wired so far
  replayed,  \* history: the list of the last attach answer
  raced,     \* history: requests of lines handled while an attach continuation was due
  late,      \* history: requests whose answer was taken, in a response past the deadline
  timeouts   \* session.attach calls whose deadline has passed

hostVars   == <<phase, shape, targets, verdict, given>>
attachVars == <<serving, attached>>
chanVars   == <<up, down, gen, link, got>>
handleVars == <<handle, pend>>
proxyVars  == <<wired, surfaced, open, shown, wirings>>
lateVars   == <<late, timeouts>>
relayVars == <<hostVars, attachVars, chanVars, handleVars, proxyVars, replayed, raced, lateVars>>

Kind(r) == IF r \in Approvals THEN "approval" ELSE "question"
Waiting == {r \in Requests : phase[r] = "pending"}

RelayInit ==
  /\ phase = [r \in Requests |-> "new"]
  /\ shape = [r \in Requests |-> NoShape]
  /\ targets = [r \in Requests |-> {}]
  /\ verdict = [r \in Requests |-> <<>>]
  /\ given = [r \in Requests |-> <<>>]
  /\ serving = {Rival, 0}
  /\ attached = {Rival}
  /\ up = [c \in Connections |-> <<>>] /\ down = <<>>
  /\ gen = 0 /\ link = "up" /\ got = <<>>
  /\ handle = "none" /\ pend = {}
  /\ wired = {} /\ surfaced = {}
  /\ open = [r \in Requests |-> 0]
  /\ shown = [r \in Requests |-> 0]
  /\ wirings = 0
  /\ replayed = {} /\ raced = {}
  /\ late = {} /\ timeouts = 0

----------------------------------------------------------------------------
(* Conversions.  A decision is [d, note]; of the note only whether it speaks *)
(* of unavailability matters.  Texts on the wire are plain strings: an       *)
(* option id and a typed text are told apart only by their value.            *)

Outcomes == {"allowed-once", "rejected", "cancelled", "unavailable"}

\* Mutant: what the waterfall resolves to is taken as it is.
NormalisedRaw(out) == out

\* The local outcome of the waterfall; a missing, throwing or rogue answerer
\* makes it "unavailable".
Normalised(out) == IF out \in Outcomes THEN out ELSE "unavailable"

\* The wire decision for a local outcome.
Decision(out) ==
  [d    |-> IF out = "allowed-once" THEN "approve" ELSE "deny",
   note |-> IF out \in {"allowed-once", "rejected"} THEN NoText ELSE out]

\* toOutcome: the decision in the vocabulary of the host's waterfall.
ToOutcome(dec) ==
  IF dec.d = "approve" THEN "allowed-once"
  ELSE IF dec.note = "unavailable" THEN "unavailable" ELSE "rejected"

\* The id of the i-th option of a question.
OptionId(i) == OptionIds[i]

\* Mutant: the custom text of a multi-select item is not appended.
toWireAnswersDropsCustom(item, ans) ==
  LET idOf(label) == IF label \in Range(item.opts)
                     THEN OptionId(CHOOSE i \in DOMAIN item.opts :
                            item.opts[i] = label /\ \A j \in 1..(i - 1) : item.opts[j] # label)
                     ELSE label
      ids == [i \in DOMAIN ans.sel |-> idOf(ans.sel[i])]
  IN IF item.multi THEN [many |-> TRUE, vals |-> ids]
     ELSE [many |-> FALSE,
           vals |-> <<IF ids # <<>> THEN ids[1]
                      ELSE IF ans.custom # NoText THEN ans.custom ELSE "">>]

\* Labels become the id of the first option with that label; a multi-select
\* item sends the custom text as one more value, a single-select item sends its
\* one choice, else the custom text, else the empty text.
toWireAnswers(item, ans) ==
  LET idOf(label) == IF label \in Range(item.opts)
                     THEN OptionId(CHOOSE i \in DOMAIN item.opts :
                            item.opts[i] = label /\ \A j \in 1..(i - 1) : item.opts[j] # label)
                     ELSE label
      ids == [i \in DOMAIN ans.sel |-> idOf(ans.sel[i])]
  IN IF item.multi
     THEN [many |-> TRUE,
           vals |-> IF ans.custom # NoText THEN Append(ids, ans.custom) ELSE ids]
     ELSE [many |-> FALSE,
           vals |-> <<IF ids # <<>> THEN ids[1]
                      ELSE IF ans.custom # NoText THEN ans.custom ELSE "">>]

\* The end of the provider's `ask`: values that are option ids become labels
\* again, the others are the custom answer; a list for a single-select item and
\* a second custom answer are errors.
Restored(item, w) ==
  LET idx(v)   == {i \in DOMAIN item.opts : OptionId(i) = v}
      label(v) == item.opts[CHOOSE i \in idx(v) : TRUE]
      typed    == {i \in DOMAIN w.vals : idx(w.vals[i]) = {}}
      k        == CHOOSE i \in typed : TRUE
  IN IF (~item.multi /\ w.many) \/ \E i, j \in typed : i # j
     THEN [sel |-> <<"error">>, custom |-> NoText]
     ELSE IF typed = {}
     THEN [sel |-> [i \in DOMAIN w.vals |-> label(w.vals[i])], custom |-> NoText]
     ELSE [sel    |-> [i \in 1..(Len(w.vals) - 1) |-> label(w.vals[IF i < k THEN i ELSE i + 1])],
           custom |-> w.vals[k]]

\* What a user can choose and type for an item: one label, or several different
\* ones in any order when the item is multi-select.
LocalAnswers(item) ==
  LET labels == Range(item.opts)
      picks  == UNION {[1..n -> labels] : n \in 0..(IF item.multi THEN Len(item.opts) ELSE 1)}
  IN [sel    : {s \in picks : \A i, j \in DOMAIN s : s[i] = s[j] => i = j},
      custom : Customs \union {NoText}]

----------------------------------------------------------------------------
(* The daemon's bridges *)

Line(t, r)     == [t |-> t, r |-> r]
Attached(set)  == [t |-> "attached", pending |-> set]

\* A line reaches the proxy only on its present connection.
ToClient(id, line) == IF id = gen /\ link # "down" THEN Append(down, line) ELSE down

\* Request r is settled; every target but the winner is told.
Told(r, winner) ==
  IF gen \in targets[r] \intersect serving /\ gen # winner THEN ToClient(gen, Line("closed", r)) ELSE down

\* The host asks.  The targets are the writer alone or everybody attached.
HostAsks(r, item, who) ==
  /\ phase[r] = "new"
  /\ Cardinality({q \in Requests : phase[q] # "new"}) < MaxAsked
  /\ attached # {}
  /\ who = attached \/ \E c \in attached : who = {c}
  /\ phase' = [phase EXCEPT ![r] = "pending"]
  /\ shape' = [shape EXCEPT ![r] = item]
  /\ targets' = [targets EXCEPT ![r] = who]
  /\ down' = IF gen \in who THEN ToClient(gen, Line("request", r)) ELSE down
  /\ UNCHANGED <<verdict, given, attachVars, up, gen, link, got, handleVars, proxyVars, replayed, raced, lateVars>>

\* The host aborts a question.
HostAborts(r) ==
  /\ r \in Questions
  /\ phase[r] = "pending"
  /\ phase' = [phase EXCEPT ![r] = "settled"]
  /\ down' = Told(r, NoOne)
  /\ UNCHANGED <<shape, targets, verdict, given, attachVars, up, gen, link, got, handleVars,
                 proxyVars, replayed, raced, lateVars>>

\* The rival answers with a decision or with an answer of its own.
RivalAnswers(r) ==
  /\ phase[r] = "pending"
  /\ Rival \in targets[r]
  /\ phase' = [phase EXCEPT ![r] = "settled"]
  /\ down' = Told(r, Rival)
  /\ UNCHANGED <<shape, targets, verdict, given, attachVars, up, gen, link, got, handleVars,
                 proxyVars, replayed, raced, lateVars>>

\* The next call of a connection is served: session.attach, session.detach, approval.answer or
\* question.answer.  The answer of an attach the client gave up is not a line: it is dropped.
Serve(c) ==
  /\ up[c] # <<>>
  /\ LET m == Head(up[c]) IN
     /\ up' = [up EXCEPT ![c] = Tail(@)]
     /\ IF m.t = "attach"
        THEN /\ attached' = attached \union {c}
             /\ down' = ToClient(c, Attached(Waiting))
             /\ UNCHANGED hostVars
        ELSE IF m.t = "lateAttach"
        THEN /\ attached' = attached \union {c}
             /\ UNCHANGED <<hostVars, down>>
        ELSE IF m.t = "detach"
        THEN /\ attached' = attached \ {c}
             /\ UNCHANGED <<hostVars, down>>
        ELSE IF phase[m.r] = "pending" /\ c \in targets[m.r]
        THEN /\ phase' = [phase EXCEPT ![m.r] = "settled"]
             /\ verdict' = [verdict EXCEPT ![m.r] =
                  <<IF m.r \in Approvals THEN ToOutcome(m.body)
                                         ELSE Restored(shape[m.r], m.body)>>]
             /\ given' = [given EXCEPT ![m.r] = <<m.local>>]
             /\ down' = ToClient(c, Line("answered", m.r))
             /\ UNCHANGED <<shape, targets, attached>>
        ELSE /\ down' = ToClient(c, Line("refused", m.r))
             /\ UNCHANGED <<hostVars, attached>>
  /\ UNCHANGED <<serving, gen, link, got, handleVars, proxyVars, replayed, raced, lateVars>>

\* The daemon sees a lost connection end: its calls are gone, it answers
\* nothing any more, and a request that loses its last target is denied.
ConnectionEnds(c) ==
  LET last == {r \in Waiting : targets[r] = {c}} IN
  /\ c \in serving
  /\ c < gen \/ link = "down"
  /\ serving' = serving \ {c}
  /\ attached' = attached \ {c}
  /\ up' = [up EXCEPT ![c] = <<>>]
  /\ targets' = [r \in Requests |-> IF r \in Waiting THEN targets[r] \ {c} ELSE targets[r]]
  /\ phase' = [r \in Requests |-> IF r \in last THEN "settled" ELSE phase[r]]
  /\ UNCHANGED <<shape, verdict, given, down, gen, link, got, handleVars, proxyVars, replayed, raced, lateVars>>

----------------------------------------------------------------------------
(* The proxy's bridges *)

\* Mutant: an interaction is dispatched whenever the handle calls back.
claimAlways(r) == TRUE

\* True when this wiring sees the interaction for the first time.
claim(r) == r \notin surfaced

\* The callbacks of the handle run for the requests `rs`: each one claimed is
\* dispatched to the local application.
Surface(rs, kinds) ==
  LET fresh == {r \in rs : Kind(r) \in kinds /\ claim(r)} IN
  /\ surfaced' = surfaced \union fresh
  /\ open' = [r \in Requests |-> IF r \in fresh THEN open[r] + 1 ELSE open[r]]
  /\ shown' = [r \in Requests |-> IF r \in fresh THEN shown[r] + 1 ELSE shown[r]]

\* mirror.ts publishes and wires.  Questions are subscribed only when the
\* channel is connected at this moment, since the capabilities of a channel
\* that is down are unknown; the pending requests are replayed.
Wire ==
  LET kinds == IF link = "up" THEN {"approval", "question"} ELSE {"approval"} IN
  /\ handle = "live"
  /\ wired = {}
  /\ wirings < MaxWirings
  /\ wirings' = wirings + 1
  /\ wired' = kinds
  /\ Surface(pend, kinds)
  /\ UNCHANGED <<hostVars, attachVars, chanVars, handleVars, replayed, raced, lateVars>>

\* Mutant: the subscriptions go, the set of surfaced interactions stays.
UnwireKeepsClaims ==
  /\ wired # {}
  /\ wired' = {}
  /\ shown' = [r \in Requests |-> 0]
  /\ UNCHANGED <<hostVars, attachVars, chanVars, handleVars, surfaced, open, wirings, replayed, raced, lateVars>>

\* The mirror is disposed and its handle kept (a shared attachment).
Unwire ==
  /\ wired # {}
  /\ wired' = {}
  /\ surfaced' = {}
  /\ shown' = [r \in Requests |-> 0]
  /\ UNCHANGED <<hostVars, attachVars, chanVars, handleVars, open, wirings, replayed, raced, lateVars>>

\* The local user answers a dialog; the answer goes out when the handle is
\* attached and the channel is up, otherwise it is dropped with a warning.
UserAnswers(r, local, body) ==
  /\ open[r] > 0
  /\ open' = [open EXCEPT ![r] = @ - 1]
  /\ up' = IF handle = "live" /\ link = "up"
           THEN [up EXCEPT ![gen] = Append(@, [t |-> "answer", r |-> r, body |-> body, local |-> local])]
           ELSE up
  /\ UNCHANGED <<hostVars, attachVars, down, gen, link, got, handleVars, wired, surfaced, shown,
                 wirings, replayed, raced, lateVars>>

UserDecides(r, out) ==
  /\ r \in Approvals
  /\ UserAnswers(r, out, Decision(Normalised(out)))

UserReplies(r, ans) ==
  /\ r \in Questions
  /\ UserAnswers(r, ans, toWireAnswers(shape[r], ans))

\* No question service, no provider or an aborted ask: the question is left
\* pending for other clients.
QuestionLeft(r) ==
  /\ r \in Questions
  /\ open[r] > 0
  /\ open' = [open EXCEPT ![r] = @ - 1]
  /\ UNCHANGED <<hostVars, attachVars, chanVars, handleVars, wired, surfaced, shown, wirings,
                 replayed, raced, lateVars>>

----------------------------------------------------------------------------
(* The handle *)

\* client.attach asks for the session.
AttachAsks ==
  /\ link = "up"
  /\ handle \in {"none", "detached"}
  /\ wired = {}
  /\ wirings < MaxWirings
  /\ handle' = "asked"
  /\ up' = [up EXCEPT ![gen] = Append(@, [t |-> "attach"])]
  /\ UNCHANGED <<hostVars, attachVars, down, gen, link, got, pend, proxyVars, replayed, raced, lateVars>>

\* Its continuation: the handle is constructed with the pending interactions.
AttachContinues ==
  /\ got # <<>>
  /\ handle = "asked"
  /\ handle' = "live"
  /\ pend' = got[1]
  /\ replayed' = got[1]
  /\ got' = <<>>
  /\ late' = {}
  /\ UNCHANGED <<hostVars, attachVars, up, down, gen, link, proxyVars, raced, timeouts>>

\* Mutant: the replayed list is added to the pending sets.
ReattachMerges ==
  /\ got # <<>>
  /\ link = "reattach"
  /\ link' = "up"
  /\ got' = <<>>
  /\ late' = {}
  /\ replayed' = got[1]
  /\ IF handle = "live"
     THEN pend' = pend \union got[1] /\ Surface(got[1] \ pend, wired)
     ELSE UNCHANGED <<pend, surfaced, open, shown>>
  /\ UNCHANGED <<hostVars, attachVars, up, down, gen, handle, wired, wirings, raced, timeouts>>

\* onReattached: the replayed list replaces the pending sets, and every entry
\* calls back; a handle detached meanwhile ignores it.  The attempt is over: the
\* channel is connected.
ReattachContinues ==
  /\ got # <<>>
  /\ link = "reattach"
  /\ link' = "up"
  /\ got' = <<>>
  /\ late' = {}
  /\ replayed' = got[1]
  /\ IF handle = "live"
     THEN pend' = got[1] /\ Surface(got[1], wired)
     ELSE UNCHANGED <<pend, surfaced, open, shown>>
  /\ UNCHANGED <<hostVars, attachVars, up, down, gen, handle, wired, wirings, raced, timeouts>>

\* The handle handles one line of the channel.  The response of an answer may be
\* past the deadline of its call: it is dropped, nobody deletes the entry, and
\* the passing of the deadline itself changes nothing else.
Receive ==
  /\ down # <<>>
  /\ LET m == Head(down) IN
     /\ down' = Tail(down)
     /\ \/ /\ m.t = "request"
           /\ IF handle = "live" /\ m.r \notin pend
              THEN pend' = pend \union {m.r} /\ Surface({m.r}, wired)
              ELSE UNCHANGED <<pend, surfaced, open, shown>>
           /\ UNCHANGED <<got, late>>
        \/ /\ m.t \in {"closed", "answered", "refused"}
           /\ pend' = IF handle = "live" /\ m.t # "refused" THEN pend \ {m.r} ELSE pend
           /\ UNCHANGED <<got, late, surfaced, open, shown>>
        \/ /\ m.t = "answered"
           /\ late' = late \union {m.r}
           /\ UNCHANGED <<got, pend, surfaced, open, shown>>
        \/ /\ m.t = "attached"
           /\ got' = <<m.pending>>
           /\ UNCHANGED <<late, pend, surfaced, open, shown>>
        \/ /\ m.t = "dropped"
           /\ UNCHANGED <<got, late, pend, surfaced, open, shown>>
     /\ raced' = IF got # <<>> /\ m.t # "dropped" THEN raced \union {m.r} ELSE raced
  /\ UNCHANGED <<hostVars, attachVars, up, gen, link, handle, wired, wirings, replayed, timeouts>>

\* The deadline of session.attach passes before its answer was taken: the call
\* goes on to the daemon, and its response, on the way or still to come, will be
\* dropped.
AttachExpires ==
  /\ got = <<>>
  /\ timeouts < MaxTimeouts
  /\ timeouts' = timeouts + 1
  /\ \/ \E i \in DOMAIN up[gen] :
          /\ up[gen][i].t = "attach"
          /\ up' = [up EXCEPT ![gen][i] = [t |-> "lateAttach"]]
          /\ UNCHANGED down
     \/ \E i \in DOMAIN down :
          /\ down[i].t = "attached"
          /\ down' = [down EXCEPT ![i] = [t |-> "dropped"]]
          /\ UNCHANGED up

\* client.attach fails; the daemon may hold the attachment nevertheless.
AttachTimesOut ==
  /\ handle = "asked"
  /\ handle' = "none"
  /\ AttachExpires
  /\ UNCHANGED <<hostVars, attachVars, gen, link, got, pend, proxyVars, replayed, raced, late>>

\* The re-attach loop gives the session up and goes on: onReattachFailed tears
\* the handle down, and the channel is connected.
ReattachTimesOut ==
  /\ link = "reattach"
  /\ link' = "up"
  /\ AttachExpires
  /\ IF handle = "live"
     THEN /\ handle' = "detached"
          /\ pend' = {}
          /\ open' = [r \in Requests |-> 0]
     ELSE UNCHANGED <<handle, pend, open>>
  /\ UNCHANGED <<hostVars, attachVars, gen, got, wired, surfaced, shown, wirings, replayed, raced, late>>

\* The mirror is disposed together with its handle: no callback, no pending
\* set; answers of its dialogs fail locally from now on.
Detach ==
  /\ handle = "live"
  /\ got = <<>>
  /\ handle' = "detached"
  /\ pend' = {}
  /\ wired' = {}
  /\ surfaced' = {}
  /\ open' = [r \in Requests |-> 0]
  /\ shown' = [r \in Requests |-> 0]
  /\ up' = IF link = "up" THEN [up EXCEPT ![gen] = Append(@, [t |-> "detach"])] ELSE up
  /\ UNCHANGED <<hostVars, attachVars, down, gen, link, got, wirings, replayed, raced, lateVars>>

----------------------------------------------------------------------------
(* The channel *)

\* The stream ends on the client's side.  An attach that was asked fails; so
\* does a re-attach, which tears the handle down.
Drop ==
  /\ link # "down"
  /\ got = <<>>
  /\ gen < MaxDrops
  /\ link' = "down"
  /\ down' = <<>>
  /\ IF link = "reattach"
     THEN /\ handle' = "detached"
          /\ pend' = {}
          /\ open' = [r \in Requests |-> 0]
     ELSE /\ handle' = IF handle = "asked" THEN "none" ELSE handle
          /\ UNCHANGED <<pend, open>>
  /\ UNCHANGED <<hostVars, attachVars, up, gen, got, wired, surfaced, shown, wirings, replayed, raced, lateVars>>

\* A new connection: a new client id, and the handle re-attaches if it lives.
Reconnect ==
  /\ link = "down"
  /\ gen' = gen + 1
  /\ serving' = serving \union {gen + 1}
  /\ IF handle = "live"
     THEN /\ link' = "reattach"
          /\ up' = [up EXCEPT ![gen + 1] = Append(@, [t |-> "attach"])]
     ELSE link' = "up" /\ UNCHANGED up
  /\ UNCHANGED <<hostVars, attached, down, got, handleVars, proxyVars, replayed, raced, lateVars>>

RelayNext ==
  \/ \E r \in Requests, who \in SUBSET Ids :
       \E item \in IF r \in Questions THEN Shapes ELSE {NoShape} : HostAsks(r, item, who)
  \/ \E r \in Requests : HostAborts(r) \/ RivalAnswers(r) \/ QuestionLeft(r)
  \/ \E r \in Approvals, out \in Outcomes \union {"rogue"} : UserDecides(r, out)
  \/ \E r \in Questions : \E ans \in LocalAnswers(shape[r]) : UserReplies(r, ans)
  \/ Receive \/ AttachAsks \/ AttachContinues \/ ReattachContinues
  \/ AttachTimesOut \/ ReattachTimesOut
  \/ Wire \/ Unwire \/ Detach \/ Drop \/ Reconnect
  \/ \E c \in Connections : Serve(c) \/ ConnectionEnds(c)

RelaySpec == RelayInit /\ [][RelayNext]_relayVars

----------------------------------------------------------------------------
(* Types.  An answer on the wire is the conversion of a local one. *)

Decided == {[t |-> "answer", r |-> r, body |-> Decision(Normalised(out)), local |-> out] :
              r \in Approvals, out \in Outcomes \union {"rogue"}}

Replied(item) == {[t |-> "answer", r |-> r, body |-> toWireAnswers(item, ans), local |-> ans] :
                    r \in Questions, ans \in LocalAnswers(item)}

Calls == [t : {"attach", "lateAttach", "detach"}] \union Decided
           \union UNION {Replied(item) : item \in Shapes \union {NoShape}}

Lines == [t : {"request", "closed", "answered", "refused"}, r : Requests]
           \union [t : {"attached"}, pending : SUBSET Requests] \union [t : {"dropped"}]

RelayTypeOK ==
  /\ phase \in [Requests -> {"new", "pending", "settled"}]
  /\ shape \in [Requests -> Shapes \union {NoShape}]
  /\ targets \in [Requests -> SUBSET Ids]
  /\ serving \subseteq Ids /\ attached \subseteq Ids
  /\ up \in [Connections -> Seq(Calls)]
  /\ down \in Seq(Lines)
  /\ gen \in Connections
  /\ link \in {"down", "reattach", "up"}
  /\ got \in {<<>>} \union {<<rs>> : rs \in SUBSET Requests}
  /\ handle \in {"none", "asked", "live", "detached"}
  /\ pend \subseteq Requests /\ surfaced \subseteq Requests
  /\ wired \subseteq {"approval", "question"}
  /\ open \in [Requests -> Nat]
  /\ shown \in [Requests -> Nat]
  /\ wirings \in 0..MaxWirings
  /\ replayed \subseteq Requests /\ raced \subseteq Requests /\ late \subseteq Requests
  /\ timeouts \in 0..MaxTimeouts

----------------------------------------------------------------------------
(* Properties *)

\* Nothing of the present connection is in flight.
Quiet == link = "up" /\ handle = "live" /\ got = <<>> /\ down = <<>>

\* A user is asked each interaction once per mirror, whatever a reconnect
\* replays, and a request that waits for this client is in front of the user as
\* soon as the channel is quiet: no order of attach, wire, drop and re-attach
\* loses it (bridges.ts claim, handle.ts replayPending).  Excepted are lines in
\* the chunk of an attach answer, and questions of a mirror that was wired
\* while the channel was down.
ShownOnce ==
  /\ \A r \in Requests : shown[r] <= 1
  /\ Quiet => \A r \in Waiting \ raced :
       gen \in targets[r] => IF Kind(r) \in wired THEN shown[r] = 1 ELSE r \in pend

\* The handle's pending sets hold no settled request once the channel is quiet:
\* what was settled while the channel was down is gone after the re-attach.
\* Excepted are a request this connection was only told of by its attach answer
\* (it is no target, so it never hears of the end) and, until the next attach
\* answer, a request that the local user settled, in time for the daemon and too
\* late for the deadline of the call (handle.ts onReattached, answerApproval,
\* answerQuestion).
PendingTrue ==
  Quiet => \A r \in pend \ raced :
    \/ r \in Waiting
    \/ r \in replayed /\ gen \notin targets[r]
    \/ r \in late /\ given[r] # <<>>

\* The answer loses nothing on its way through four conversions.  An approval is
\* granted exactly when the local user allowed it; it is unavailable exactly
\* when nobody could decide.  The host gets the labels the user chose and the
\* text the user typed, except that a text spelled like an offered option id is
\* read as the option, that a single-select item sends no text beside a choice,
\* and that an empty reply to one becomes the empty text (bridges.ts
\* toWireAnswers, index.ts ask, toOutcome).
VerdictCarried ==
  \A r \in Requests : given[r] # <<>> =>
    LET ans  == given[r][1]
        told == verdict[r][1]
        item == shape[r]
    IN IF r \in Approvals
       THEN /\ told = "allowed-once" <=> ans = "allowed-once"
            /\ told = "unavailable" <=> ans \notin {"allowed-once", "rejected", "cancelled"}
       ELSE ans.custom \notin {OptionId(i) : i \in DOMAIN item.opts} =>
            /\ told.sel = ans.sel
            /\ told.custom = IF item.multi THEN ans.custom
                             ELSE IF ans.sel # <<>> THEN NoText
                             ELSE IF ans.custom = NoText THEN "" ELSE ans.custom

============================================================================
