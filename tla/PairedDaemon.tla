---------------------------- MODULE PairedDaemon ----------------------------
(***************************************************************************)
(* A remote host that frontends pair with (packages/remote-backend/src):   *)
(* runs of `dsh-remote-backend init` that write the pairing token          *)
(* (init.ts, config.ts), and daemon processes (bin.ts, profile-boot.ts,    *)
(* index.ts, serve.ts) that read it once when they start and let one       *)
(* connection in after a challenge and a proof (auth.ts of remote-core).   *)
(*                                                                         *)
(* All processes share the configuration file.  The host may crash: what   *)
(* was not synced is torn, and a rename that has not reached the disk is   *)
(* undone.  A proof is the token and the challenge it is about, since the  *)
(* keyed hash of both nonces and of the hello is equal only for equal      *)
(* inputs.  A frontend uses some token it was once given, which may have   *)
(* been replaced, or has it wrong.                                         *)
(***************************************************************************)
EXTENDS Integers, Sequences, FiniteSets, SequencesExt

CONSTANTS
  Inits,        \* runs of `init`; each mints the token that bears its name
  Daemons,      \* daemon processes, one per connection
  Wrong,        \* a token nobody minted
  None,         \* no token, no file
  Torn,         \* the file after a crash destroyed it
  MaxFailures,  \* auth.maxFailures
  MaxHellos,    \* bound on the hellos of a connection
  MaxProofs,    \* bound on the failed proofs of a connection
  MaxCrashes    \* bound on crashes of the host

ASSUME DaemonAssumption ==
  /\ {Wrong, None, Torn} \intersect Inits = {}
  /\ MaxFailures \in Nat \ {0} /\ MaxHellos \in Nat /\ MaxProofs \in Nat /\ MaxCrashes \in Nat

VARIABLES
  file,        \* the configuration the running system sees
  disk,        \* what a crash would leave
  run,         \* run[i]: how far `init` i is
  rotate,      \* rotate[i]: --rotate-token was given
  printed,     \* tokens shown to a user
  st,          \* st[d]: "off", "serving", "closing" (the stream ended), "ended"
  token,       \* token[d]: the token d loaded
  pendingHello,\* pendingHello[d]: the open challenge, 0 when there is none
  nonce,       \* nonce[d]: challenges made so far
  failures,    \* failures[d]
  sleeping,    \* sleeping[d]: failed proofs whose delay runs
  fatal,       \* fatal[d]: the timer that ends the connection runs
  admitted,    \* admitted[d]: history, <<challenge, token>> of each accepted proof
  registered,  \* registered[d]: client ids the broker and the bridges know
  subs,        \* subs[d]: client ids with a monitor subscription
  exit,        \* exit[d]: process.exitCode
  crashes

configVars == <<file, disk, run, rotate, printed>>
gateVars   == <<pendingHello, nonce, failures, sleeping, fatal, admitted>>
daemonVars == <<st, token, exit, gateVars, registered, subs>>
vars       == <<configVars, daemonVars, crashes>>

\* A configuration file: its token, and whether its data reached the disk.
Config == [tok : Inits, synced : BOOLEAN]

\* The markers are no configurations.
ASSUME MarkerAssumption == None # Torn /\ {None, Torn} \intersect Config = {}

RunState == {"idle", "checked", "written", "synced", "renamed", "done", "failed"}

TypeOK ==
  /\ file \in Config \union {None, Torn}
  /\ disk \in Config \union {None, Torn}
  /\ run \in [Inits -> RunState]
  /\ rotate \in [Inits -> BOOLEAN]
  /\ printed \subseteq Inits
  /\ st \in [Daemons -> {"off", "serving", "closing", "ended"}]
  /\ token \in [Daemons -> Inits \union {None}]
  /\ nonce \in [Daemons -> 0..MaxHellos]
  /\ pendingHello \in [Daemons -> 0..MaxHellos]
  /\ \A d \in Daemons : pendingHello[d] <= nonce[d]
  /\ failures \in [Daemons -> 0..MaxProofs]
  /\ sleeping \in [Daemons -> Nat]
  /\ fatal \in [Daemons -> BOOLEAN]
  /\ admitted \in [Daemons -> Seq((1..MaxHellos) \X Inits)]
  /\ registered \in [Daemons -> SUBSET Nat]
  /\ \A d \in Daemons : registered[d] \subseteq DOMAIN admitted[d]
  /\ subs \in [Daemons -> SUBSET Nat]
  /\ exit \in [Daemons -> 0..2]
  /\ crashes \in 0..MaxCrashes

Init ==
  /\ file = None /\ disk = None
  /\ run = [i \in Inits |-> "idle"]
  /\ rotate \in [Inits -> BOOLEAN]
  /\ printed = {}
  /\ st = [d \in Daemons |-> "off"]
  /\ token = [d \in Daemons |-> None]
  /\ pendingHello = [d \in Daemons |-> 0]
  /\ nonce = [d \in Daemons |-> 0]
  /\ failures = [d \in Daemons |-> 0]
  /\ sleeping = [d \in Daemons |-> 0]
  /\ fatal = [d \in Daemons |-> FALSE]
  /\ admitted = [d \in Daemons |-> <<>>]
  /\ registered = [d \in Daemons |-> {}]
  /\ subs = [d \in Daemons |-> {}]
  /\ exit = [d \in Daemons |-> 0]
  /\ crashes = 0

----------------------------------------------------------------------------
(* init: writeConfig *)

InitStep(i, from, to) == run[i] = from /\ run' = [run EXCEPT ![i] = to]

\* Without --rotate-token an existing configuration is refused.
InitChecks(i) ==
  /\ InitStep(i, "idle", IF rotate[i] \/ file = None THEN "checked" ELSE "failed")
  /\ UNCHANGED <<file, disk, rotate, printed, daemonVars, crashes>>

\* The token goes to a temporary file.
InitWrites(i) ==
  /\ InitStep(i, "checked", "written")
  /\ UNCHANGED <<file, disk, rotate, printed, daemonVars, crashes>>

\* Mutant: the temporary file is not synced.
InitSkipsSync(i) ==
  /\ InitStep(i, "written", "renamed")
  /\ file' = [tok |-> i, synced |-> FALSE]
  /\ UNCHANGED <<disk, rotate, printed, daemonVars, crashes>>

InitSyncs(i) ==
  /\ InitStep(i, "written", "synced")
  /\ UNCHANGED <<file, disk, rotate, printed, daemonVars, crashes>>

InitRenames(i) ==
  /\ InitStep(i, "synced", "renamed")
  /\ file' = [tok |-> i, synced |-> TRUE]
  /\ UNCHANGED <<disk, rotate, printed, daemonVars, crashes>>

\* The token is printed, once.
InitPrints(i) ==
  /\ InitStep(i, "renamed", "done")
  /\ printed' = printed \union {i}
  /\ UNCHANGED <<file, disk, rotate, daemonVars, crashes>>

\* A step of writeConfig fails before the rename; the old file stays.
InitFails(i) ==
  /\ run[i] \in {"checked", "written", "synced"}
  /\ run' = [run EXCEPT ![i] = "failed"]
  /\ UNCHANGED <<file, disk, rotate, printed, daemonVars, crashes>>

\* The file system writes the directory back.
DiskFlush ==
  /\ disk # file
  /\ disk' = file
  /\ UNCHANGED <<file, run, rotate, printed, daemonVars, crashes>>

----------------------------------------------------------------------------
(* A daemon starts *)

Ends(d, code) ==
  /\ st[d] = "off"
  /\ st' = [st EXCEPT ![d] = "ended"]
  /\ exit' = [exit EXCEPT ![d] = code]
  /\ UNCHANGED <<configVars, token, gateVars, registered, subs, crashes>>

\* No command, --help, an unknown command or wrong arguments: nothing is served.
main(d) == \E code \in {0, 2} : Ends(d, code)

\* serve --profile: the profile is missing, its boot rejects, or it does not
\* mount the backend.
BootFails(d) == Ends(d, 1)

\* The token of a readable configuration.
loadToken(f) == IF f \in {None, Torn} THEN None ELSE f.tok

\* runServe, called by main for the empty host and by apply() for a booted
\* profile, loads the token.
runServe(d) ==
  /\ st[d] = "off"
  /\ loadToken(file) # None
  /\ st' = [st EXCEPT ![d] = "serving"]
  /\ token' = [token EXCEPT ![d] = loadToken(file)]
  /\ UNCHANGED <<configVars, exit, gateVars, registered, subs, crashes>>

\* Without a valid token runServe gives up or throws, which main and apply()
\* turn into the exit code.
ServeFails(d) == loadToken(file) = None /\ Ends(d, 1)

----------------------------------------------------------------------------
(* The handshake gate *)

\* A new hello replaces the open challenge.
Hello(d) ==
  /\ st[d] = "serving"
  /\ nonce[d] < MaxHellos
  /\ nonce' = [nonce EXCEPT ![d] = @ + 1]
  /\ pendingHello' = [pendingHello EXCEPT ![d] = nonce[d] + 1]
  /\ UNCHANGED <<configVars, st, token, exit, failures, sleeping, fatal, admitted,
                 registered, subs, crashes>>

\* verifyProof, with the comparison of the nonces.
Proves(d, n, tok) == n = pendingHello[d] /\ tok = token[d]

\* A proof that fails: the answer is delayed, the challenge stays open.
ProofFails(d, n, tok) ==
  /\ st[d] = "serving"
  /\ pendingHello[d] # 0
  /\ ~Proves(d, n, tok)
  /\ failures[d] < MaxProofs
  /\ failures' = [failures EXCEPT ![d] = @ + 1]
  /\ sleeping' = [sleeping EXCEPT ![d] = @ + 1]
  /\ UNCHANGED <<configVars, st, token, exit, pendingHello, nonce, fatal, admitted,
                 registered, subs, crashes>>

\* Mutant: one failure more is let pass.
DelayEndsLate(d) ==
  /\ sleeping[d] > 0
  /\ sleeping' = [sleeping EXCEPT ![d] = @ - 1]
  /\ fatal' = [fatal EXCEPT ![d] = @ \/ failures[d] > MaxFailures]
  /\ UNCHANGED <<configVars, st, token, exit, pendingHello, nonce, failures, admitted,
                 registered, subs, crashes>>

\* The delay is over: at the limit the timer that ends the connection is set,
\* by the count of that moment.
DelayEnds(d) ==
  /\ sleeping[d] > 0
  /\ sleeping' = [sleeping EXCEPT ![d] = @ - 1]
  /\ fatal' = [fatal EXCEPT ![d] = @ \/ failures[d] >= MaxFailures]
  /\ UNCHANGED <<configVars, st, token, exit, pendingHello, nonce, failures, admitted,
                 registered, subs, crashes>>

\* Mutant: the challenge stays open after it was met.
ProofAcceptedAgain(d, n, tok) ==
  /\ st[d] = "serving"
  /\ pendingHello[d] # 0
  /\ Proves(d, n, tok)
  /\ Len(admitted[d]) < MaxHellos
  /\ admitted' = [admitted EXCEPT ![d] = Append(@, <<n, tok>>)]
  /\ registered' = [registered EXCEPT ![d] = @ \union {Len(admitted[d]) + 1}]
  /\ UNCHANGED <<configVars, st, token, exit, pendingHello, nonce, failures, sleeping,
                 fatal, subs, crashes>>

\* A proof that holds: a client id is minted, all methods speak for it from now
\* on, and the broker gets the connection.
ProofAccepted(d, n, tok) ==
  /\ st[d] = "serving"
  /\ pendingHello[d] # 0
  /\ Proves(d, n, tok)
  /\ pendingHello' = [pendingHello EXCEPT ![d] = 0]
  /\ admitted' = [admitted EXCEPT ![d] = Append(@, <<n, tok>>)]
  /\ registered' = [registered EXCEPT ![d] = @ \union {Len(admitted[d]) + 1}]
  /\ UNCHANGED <<configVars, st, token, exit, nonce, failures, sleeping, fatal, subs,
                 crashes>>

\* The client id the methods speak for.
clientId(d) == Len(admitted[d])

\* monitor.subscribe and monitor.unsubscribe of the authenticated client.
Subscribe(d) ==
  /\ st[d] = "serving"
  /\ clientId(d) > 0
  /\ \/ subs' = [subs EXCEPT ![d] = @ \union {clientId(d)}]
     \/ subs' = [subs EXCEPT ![d] = @ \ {clientId(d)}]
  /\ UNCHANGED <<configVars, st, token, exit, gateVars, registered, crashes>>

----------------------------------------------------------------------------
(* The end of a connection *)

\* The frontend closes the stream.
StreamEnds(d) ==
  /\ st[d] = "serving"
  /\ st' = [st EXCEPT ![d] = "closing"]
  /\ UNCHANGED <<configVars, token, exit, gateVars, registered, subs, crashes>>

\* onFatal destroys the input; the exit code is set when the server closed
\* because of it.
FatalFires(d) ==
  /\ fatal[d]
  /\ fatal' = [fatal EXCEPT ![d] = FALSE]
  /\ IF st[d] = "serving"
     THEN /\ st' = [st EXCEPT ![d] = "closing"]
          /\ exit' = [exit EXCEPT ![d] = 1]
     ELSE UNCHANGED <<st, exit>>
  /\ UNCHANGED <<configVars, token, pendingHello, nonce, failures, sleeping, admitted,
                 registered, subs, crashes>>

\* Mutant: only the last client is unsubscribed; the monitor is not disposed.
TeardownLastOnly(d) ==
  /\ st[d] = "closing"
  /\ st' = [st EXCEPT ![d] = "ended"]
  /\ registered' = [registered EXCEPT ![d] = @ \ {clientId(d)}]
  /\ subs' = [subs EXCEPT ![d] = @ \ {clientId(d)}]
  /\ UNCHANGED <<configVars, token, exit, gateVars, crashes>>

\* peer.closed: the last client leaves the broker and the bridges; then runServe
\* disposes the monitor and the bridges.
Teardown(d) ==
  /\ st[d] = "closing"
  /\ st' = [st EXCEPT ![d] = "ended"]
  /\ registered' = [registered EXCEPT ![d] = @ \ {clientId(d)}]
  /\ subs' = [subs EXCEPT ![d] = {}]
  /\ UNCHANGED <<configVars, token, exit, gateVars, crashes>>

\* The host crashes: every process is gone.  A file whose data was not synced
\* is torn.
HostCrashes ==
  LET left == IF disk \in {None, Torn} \/ disk.synced THEN disk ELSE Torn IN
  /\ crashes < MaxCrashes
  /\ crashes' = crashes + 1
  /\ file' = left /\ disk' = left
  /\ run' = [i \in Inits |-> IF run[i] \in {"idle", "done", "failed"} THEN run[i] ELSE "failed"]
  /\ st' = [d \in Daemons |-> IF st[d] = "off" THEN "off" ELSE "ended"]
  /\ sleeping' = [d \in Daemons |-> 0]
  /\ fatal' = [d \in Daemons |-> FALSE]
  /\ registered' = [d \in Daemons |-> {}]
  /\ subs' = [d \in Daemons |-> {}]
  /\ UNCHANGED <<rotate, printed, token, exit, pendingHello, nonce, failures, admitted>>

Next ==
  \/ \E i \in Inits : \/ InitChecks(i) \/ InitWrites(i) \/ InitSyncs(i)
                      \/ InitRenames(i) \/ InitPrints(i) \/ InitFails(i)
  \/ \E d \in Daemons : \/ main(d) \/ BootFails(d) \/ runServe(d) \/ ServeFails(d)
                        \/ Hello(d) \/ DelayEnds(d) \/ Subscribe(d)
                        \/ StreamEnds(d) \/ FatalFires(d) \/ Teardown(d)
  \/ \E d \in Daemons, tok \in printed \union {Wrong} : \E n \in 1..nonce[d] :
       ProofFails(d, n, tok) \/ ProofAccepted(d, n, tok)
  \/ DiskFlush
  \/ HostCrashes

\* Timers fire and continuations run.
Fairness ==
  \A d \in Daemons : WF_vars(DelayEnds(d)) /\ WF_vars(FatalFires(d)) /\ WF_vars(Teardown(d))

Spec == Init /\ [][Next]_vars /\ Fairness

----------------------------------------------------------------------------
(* Properties *)

\* Each challenge lets at most one client in, whatever hellos and proofs are in
\* flight, and only for the token the daemon started with, which an `init` had
\* put in place whole (serve.ts hello.proof, config.ts loadToken).
AdmitsOnce ==
  \A d \in Daemons : \A k, m \in DOMAIN admitted[d] :
    /\ admitted[d][k][1] = admitted[d][m][1] => k = m
    /\ admitted[d][k][2] = token[d]
    /\ run[token[d]] \in {"renamed", "done", "failed"}

\* A configured host stays configured: no crash and no failing or concurrent
\* `init` leaves a file the daemon cannot read, and from the moment a
\* configuration has reached the disk there always is one (config.ts
\* writeConfig: temporary file, sync, rename).
ConfigSurvives ==
  [][/\ file' # Torn
     /\ disk # None => file' # None]_vars

\* A connection with too many failed proofs is closed, even when its delays end
\* in another order or a late proof is accepted meanwhile (serve.ts onFatal).
LimitCloses ==
  \A d \in Daemons : failures[d] >= MaxFailures ~> st[d] = "ended"

\* When a daemon's connection is over, nobody is subscribed, and no client id is
\* left in its broker except those that a later handshake of the same connection
\* displaced (serve.ts peer.closed).
ClosedLeavesNothing ==
  \A d \in Daemons : st[d] = "ended" =>
    subs[d] = {} /\ registered[d] \subseteq 1..(clientId(d) - 1)

============================================================================
