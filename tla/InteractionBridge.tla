------------------------- MODULE InteractionBridge -------------------------
(***************************************************************************)
(* ApprovalBridge and QuestionBridge (packages/remote-backend/src/         *)
(* approval.ts, question.ts) on top of the broker.  The host asks for an   *)
(* approval (or asks a question); the bridge routes the request to the     *)
(* write-control holder, or to every attached client when nobody holds     *)
(* control, or to every connection when the request names no session, and  *)
(* the first answer settles it.                                            *)
(*                                                                         *)
(* The connection teardown of serve.ts calls the broker and both bridges   *)
(* in one synchronous block, so Disconnect here is the conjunction of the  *)
(* three.  Settling an approval resolves a promise; the `finally` of       *)
(* #handle, which clears the waiting-approval flag, is a later microtask   *)
(* and a step of its own.  session.attach also returns the pending requests *)
(* of the session, so a client that attaches late sees requests it is no    *)
(* target of: it cannot answer them and is not told of their end.           *)
(***************************************************************************)
EXTENDS SessionBroker

CONSTANTS
  Approvals,   \* ids of the approval requests the host may make
  Questions,   \* ids of the questions the host may ask
  MaxRequests, \* how many of them it makes, a bound of the model
  FailClosed   \* ApprovalBridgeOptions.failClosed

Requests == Approvals \union Questions

ASSUME DisjointAssumption == Approvals \intersect Questions = {}
ASSUME NoSessionAssumption == None \notin Sessions
ASSUME MaxRequestsAssumption == MaxRequests \in Nat
ASSUME FailClosedAssumption == FailClosed \in BOOLEAN

VARIABLES
  phase,      \* phase[r]: "new", "pending", "settled" (resolved, `finally` due), "done"
  about,      \* about[r]: the session of the request, None when it names none
  targets,    \* targets[r]: clients still eligible to answer
  outcome,    \* outcome[r]: what the host was told
  winner,     \* winner[r]: the client whose answer was taken, or None
  prompts,    \* prompts[c]: requests c was told of and has not seen closed
  serving,    \* FALSE once the bridges are disposed
  (* History: no step reads these two. *)
  replayed,   \* replayed[c]: requests an attach showed to c, no target of theirs
  unflagged   \* approvals whose flag the `finally` of another one cleared

requestVars == <<phase, about, targets, outcome, winner>>
history     == <<replayed, unflagged>>
bridgeVars  == <<requestVars, prompts, serving, history>>
vars        == <<brokerVars, bridgeVars>>

Outcomes == {"open", "approve", "deny", "answered", "unavailable", "delegated"}

TypeOK ==
  /\ BrokerTypeOK
  /\ phase \in [Requests -> {"new", "pending", "settled", "done"}]
  /\ about \in [Requests -> Sessions \union {None}]
  /\ targets \in [Requests -> SUBSET Clients]
  /\ outcome \in [Requests -> Outcomes]
  /\ winner \in [Requests -> Holder]
  /\ prompts \in [Clients -> SUBSET Requests]
  /\ serving \in BOOLEAN
  /\ replayed \in [Clients -> SUBSET Requests]
  /\ unflagged \in SUBSET Approvals

Init ==
  /\ BrokerInit
  /\ phase = [r \in Requests |-> "new"]
  /\ about = [r \in Requests |-> None]
  /\ targets = [r \in Requests |-> {}]
  /\ outcome = [r \in Requests |-> "open"]
  /\ winner = [r \in Requests |-> None]
  /\ prompts = [c \in Clients |-> {}]
  /\ serving = TRUE
  /\ replayed = [c \in Clients |-> {}]
  /\ unflagged = {}

----------------------------------------------------------------------------
(* Routing *)

\* The writer alone, else whoever is attached; every connection when the
\* request names no session.
Route(s) ==
  IF s = None THEN {c \in Clients : conn[c] = "live"}
  ELSE IF WriterOf(s) # {} THEN WriterOf(s) ELSE AttachedTo(s)

\* The requests in `which` are closed: connected targets dismiss their prompt.
Dismiss(screens, which) ==
  [c \in Clients |->
     screens[c] \ {r \in which : conn[c] = "live" /\ c \in targets[r]}]

\* The requests the attach result of session s carries.
PendingForSession(s) == {r \in Requests : phase[r] = "pending" /\ about[r] = s}

\* Approvals other than r that rely on the flag r's `finally` clears.
SharesFlag(r) ==
  {a \in Approvals \ {r} : about[a] = about[r] /\ about[a] # None
                           /\ phase[a] \in {"pending", "settled"}}

\* Where a settled request rests: an approval still owes its `finally`.
Resting(r) == IF r \in Approvals THEN "settled" ELSE "done"

----------------------------------------------------------------------------
(* Requests of the host *)

\* The host may make one more request.
RoomForRequest == Cardinality({r \in Requests : phase[r] # "new"}) < MaxRequests

\* A request nobody can answer is refused on the spot (an approval is passed to
\* the next handler instead when the bridge does not fail closed).
RequestRefused(r, s) ==
  /\ serving
  /\ phase[r] = "new"
  /\ RoomForRequest
  /\ Route(s) = {}
  /\ phase' = [phase EXCEPT ![r] = "done"]
  /\ about' = [about EXCEPT ![r] = s]
  /\ outcome' = [outcome EXCEPT ![r] =
       IF r \in Approvals /\ ~FailClosed THEN "delegated" ELSE "unavailable"]
  /\ UNCHANGED <<brokerVars, targets, winner, prompts, serving, history>>

\* Mutant: the flag is set without looking whether the request names a session.
RequestRoutedFlagsAll(r, s) ==
  /\ serving
  /\ phase[r] = "new"
  /\ RoomForRequest
  /\ Route(s) # {}
  /\ phase' = [phase EXCEPT ![r] = "pending"]
  /\ about' = [about EXCEPT ![r] = s]
  /\ targets' = [targets EXCEPT ![r] = Route(s)]
  /\ prompts' = [c \in Clients |->
                   IF c \in Route(s) THEN prompts[c] \union {r} ELSE prompts[c]]
  /\ SetWaitingApproval(s, TRUE)
  /\ unflagged' = {a \in unflagged : about[a] # s}
  /\ UNCHANGED <<conn, attachVars, leases, view, saving, compacting, hostVars,
                 outcome, winner, serving, replayed>>

RequestRouted(r, s) ==
  /\ serving
  /\ phase[r] = "new"
  /\ RoomForRequest
  /\ Route(s) # {}
  /\ phase' = [phase EXCEPT ![r] = "pending"]
  /\ about' = [about EXCEPT ![r] = s]
  /\ targets' = [targets EXCEPT ![r] = Route(s)]
  /\ prompts' = [c \in Clients |->
                   IF c \in Route(s) THEN prompts[c] \union {r} ELSE prompts[c]]
  /\ IF r \in Approvals /\ s # None
     THEN SetWaitingApproval(s, TRUE) /\ unflagged' = {a \in unflagged : about[a] # s}
     ELSE UNCHANGED <<waiting, unflagged>>
  /\ UNCHANGED <<conn, attachVars, leases, view, saving, compacting, hostVars,
                 outcome, winner, serving, replayed>>

\* Mutant: no `finally`; the flag is left as it is.
ApprovalNoFinally(r) ==
  /\ phase[r] = "settled"
  /\ phase' = [phase EXCEPT ![r] = "done"]
  /\ UNCHANGED <<brokerVars, about, targets, outcome, winner, prompts, serving, history>>

\* The `finally` of #handle, after the decision was returned to the host.
ApprovalFinally(r) ==
  /\ phase[r] = "settled"
  /\ phase' = [phase EXCEPT ![r] = "done"]
  /\ IF about[r] # None THEN SetWaitingApproval(about[r], FALSE)
                        ELSE UNCHANGED waiting
  /\ unflagged' = unflagged \union SharesFlag(r)
  /\ UNCHANGED <<conn, attachVars, leases, view, saving, compacting, hostVars,
                 about, targets, outcome, winner, prompts, serving, replayed>>

\* Mutant: the abort resolves the host's promise and withdraws nothing.
QuestionAbortedQuietly(r) ==
  /\ r \in Questions
  /\ phase[r] = "pending"
  /\ phase' = [phase EXCEPT ![r] = "done"]
  /\ outcome' = [outcome EXCEPT ![r] = "unavailable"]
  /\ UNCHANGED <<brokerVars, about, targets, winner, prompts, serving, history>>

\* The host aborts a question: it is withdrawn from every target.
QuestionAborted(r) ==
  /\ r \in Questions
  /\ phase[r] = "pending"
  /\ phase' = [phase EXCEPT ![r] = "done"]
  /\ outcome' = [outcome EXCEPT ![r] = "unavailable"]
  /\ prompts' = Dismiss(prompts, {r})
  /\ UNCHANGED <<brokerVars, about, targets, winner, serving, history>>

\* Plugin unload: both bridges leave the host, pending questions are withdrawn.
Dispose ==
  LET open == {r \in Questions : phase[r] = "pending"} IN
  /\ serving
  /\ serving' = FALSE
  /\ phase' = [r \in Requests |-> IF r \in open THEN "done" ELSE phase[r]]
  /\ outcome' = [r \in Requests |-> IF r \in open THEN "unavailable" ELSE outcome[r]]
  /\ prompts' = Dismiss(prompts, open)
  /\ UNCHANGED <<brokerVars, about, targets, winner, history>>

----------------------------------------------------------------------------
(* approval.answer and question.answer *)

\* Mutant: a late answer is taken too.
AnswerLate(c, r, decision) ==
  /\ conn[c] = "live"
  /\ phase[r] \in {"pending", "settled"}
  /\ c \in targets[r]
  /\ decision \in IF r \in Approvals THEN {"approve", "deny"} ELSE {"answered"}
  /\ phase' = [phase EXCEPT ![r] = Resting(r)]
  /\ outcome' = [outcome EXCEPT ![r] = decision]
  /\ winner' = [winner EXCEPT ![r] = c]
  /\ prompts' = Dismiss(prompts, {r})
  /\ UNCHANGED <<brokerVars, about, targets, serving, history>>

Answer(c, r, decision) ==
  /\ conn[c] = "live"
  /\ phase[r] = "pending"
  /\ c \in targets[r]
  /\ decision \in IF r \in Approvals THEN {"approve", "deny"} ELSE {"answered"}
  /\ phase' = [phase EXCEPT ![r] = Resting(r)]
  /\ outcome' = [outcome EXCEPT ![r] = decision]
  /\ winner' = [winner EXCEPT ![r] = c]
  /\ prompts' = Dismiss(prompts, {r})
  /\ UNCHANGED <<brokerVars, about, targets, serving, history>>

----------------------------------------------------------------------------
(* The end of a connection: broker.disconnect, approval.disconnect and       *)
(* question.disconnect.  A request that loses its last target is refused.    *)

\* Mutant: the connection leaves the broker but stays a target.
BridgeDisconnectForgets(c) ==
  /\ Disconnect(c)
  /\ prompts' = [prompts EXCEPT ![c] = {}]
  /\ UNCHANGED <<requestVars, serving, history>>

BridgeDisconnect(c) ==
  LET hit  == {r \in Requests : phase[r] = "pending" /\ c \in targets[r]}
      last == {r \in hit : targets[r] = {c}}
  IN
  /\ Disconnect(c)
  /\ targets' = [r \in Requests |-> IF r \in hit THEN targets[r] \ {c} ELSE targets[r]]
  /\ phase' = [r \in Requests |-> IF r \in last THEN Resting(r) ELSE phase[r]]
  /\ outcome' = [r \in Requests |->
                   IF r \notin last THEN outcome[r]
                   ELSE IF r \in Approvals THEN "deny" ELSE "unavailable"]
  /\ prompts' = [prompts EXCEPT ![c] = {}]
  /\ UNCHANGED <<about, winner, serving, history>>

----------------------------------------------------------------------------
(* session.attach: an attach that is granted returns the pending requests of *)
(* the session (serve.ts #pendingInteractions), whoever they were routed to.  *)

\* Mutant: the attach result carries the requests of every session.
BridgeAttachAll(c, s) ==
  /\ AttachStep(c, s)
  /\ prompts' = [prompts EXCEPT ![c] = @ \union {r \in Requests : phase[r] = "pending"}]
  /\ replayed' = [replayed EXCEPT ![c] =
                    @ \union {r \in PendingForSession(s) : c \notin targets[r]}]
  /\ UNCHANGED <<requestVars, serving, unflagged>>

BridgeAttach(c, s) ==
  /\ AttachStep(c, s)
  /\ prompts' = [prompts EXCEPT ![c] = @ \union PendingForSession(s)]
  /\ replayed' = [replayed EXCEPT ![c] =
                    @ \union {r \in PendingForSession(s) : c \notin targets[r]}]
  /\ UNCHANGED <<requestVars, serving, unflagged>>

----------------------------------------------------------------------------
(* The backend *)

BrokerOnly ==
  /\ \/ \E c \in Clients : Connect(c)
     \/ \E c \in Clients, s \in Sessions : RequestStep(c, s)
     \/ \E s \in Sessions : HostStep(s)
  /\ UNCHANGED bridgeVars

Next ==
  \/ BrokerOnly
  \/ \E c \in Clients, s \in Sessions : BridgeAttach(c, s)
  \/ \E c \in Clients : BridgeDisconnect(c)
  \/ \E r \in Requests, s \in Sessions \union {None} :
       RequestRefused(r, s) \/ RequestRouted(r, s)
  \/ \E r \in Requests : ApprovalFinally(r)
  \/ \E r \in Questions : QuestionAborted(r)
  \/ \E c \in Clients, r \in Requests, d \in {"approve", "deny", "answered"} :
       Answer(c, r, d)
  \/ Dispose

\* The microtask queue always drains: a resolved approval reaches its `finally`.
Fairness == \A r \in Approvals : WF_vars(ApprovalFinally(r))

Spec == Init /\ [][Next]_vars /\ Fairness

----------------------------------------------------------------------------
(* Properties *)

\* A request never waits on nobody: while it is pending some eligible client is
\* still connected (approval.ts, question.ts disconnect).
PendingHasTarget ==
  \A r \in Requests : phase[r] = "pending" =>
    targets[r] # {} /\ \A c \in targets[r] : conn[c] = "live"

\* While a request is pending, every client that may answer it has it on its
\* screen.  Any other screen it is on belongs to a client that an attach showed
\* it to and that was no target: a target is told of the end, however the
\* request ends (approval.ts #settle, question.ts #notifyLosers), and only such
\* a late attacher is left with a prompt that is settled (serve.ts 277-282).
PromptsReachTargets ==
  /\ \A r \in Requests : phase[r] = "pending" =>
       \A c \in targets[r] : r \in prompts[c]
  /\ \A c \in Clients : \A r \in prompts[c] :
       (phase[r] = "pending" /\ c \in targets[r]) \/ r \in replayed[c]
  /\ \A c \in Clients : \A r \in replayed[c] :
       c \notin targets[r] /\ about[r] # None /\ phase[r] # "new"

\* The waiting-approval flag is never left behind, and it stands for as long as
\* an approval of its session waits.  The one exception is the code's: the flag
\* is shared, and the `finally` of one approval clears it for the others
\* (approval.ts 160).
FlagTrue ==
  /\ \A s \in waiting : \E r \in Approvals :
       about[r] = s /\ phase[r] \in {"pending", "settled"}
  /\ \A r \in Approvals : phase[r] \in {"pending", "settled"} /\ about[r] # None =>
       about[r] \in waiting \/ r \in unflagged

\* No request waits on nobody, every client that may answer is shown it and told
\* of its end, and the flag follows the approvals: the invariant of approval.ts
\* and question.ts over the broker's connections.
BridgeInv == TypeOK /\ PendingHasTarget /\ PromptsReachTargets /\ FlagTrue

\* The host gets one verdict per request, and an approval is granted only by a
\* connected client that was among the targets when it was routed.
OneVerdict ==
  [][\A r \in Requests :
       /\ phase[r] \in {"settled", "done"} =>
            outcome'[r] = outcome[r] /\ winner'[r] = winner[r]
       /\ outcome'[r] = "approve" /\ outcome[r] # "approve" =>
            /\ winner'[r] \in targets[r]
            /\ conn[winner'[r]] = "live"
            /\ r \in prompts[winner'[r]]]_vars

\* When every connection is gone for good, every request the host made has been
\* decided and no session stays flagged: nothing in the host hangs on a
\* frontend that left (serve.ts 251-258, approval.ts 89-96).
DrainSettles ==
  <>[](\A c \in Clients : conn[c] # "live") =>
    <>[](waiting = {} /\ \A r \in Requests : phase[r] \in {"new", "done"})

============================================================================
